---- MODULE Spec2Model ----
(***************************************************************************)
(* Model of the protokoll-format versioned-document engine:                *)
(* the PklTranscript orchestrator, the content history manager with its    *)
(* text-level diff reversal, the metadata codec, the audit log and the     *)
(* artifact store, over one SQLite document.                               *)
(***************************************************************************)
EXTENDS Integers, Sequences, FiniteSets, TLC

\* ------------------------------------------------------------------------
\* Bounds of the model
\* ------------------------------------------------------------------------
\* longest content text, in characters
MaxLen == 2
\* most rows of content_history
MaxDiffs == 2
\* updateMetadata is called while audit_log has fewer rows than this
MaxAudit == 1
\* most fields of one updateMetadata call
MaxFields == 2
\* the latest second the clock reaches
MaxClock == 1
\* most rows of artifacts
MaxArtifacts == 2

\* ------------------------------------------------------------------------
\* Texts: a text is a sequence of characters; NL is the line terminator
\* ------------------------------------------------------------------------
NL == "\n"

Chars == {"a", "-", "+", NL}

Texts == UNION { [1..n -> Chars] : n \in 0..MaxLen }

EmptyText == <<>>

StartsWith(line, prefix) ==
  /\ Len(line) >= Len(prefix)
  /\ SubSeq(line, 1, Len(prefix)) = prefix

Drop(line, n) == SubSeq(line, n + 1, Len(line))

Max(a, b) == IF a >= b THEN a ELSE b

\* String.prototype.split('\n'): "" gives one empty line
RECURSIVE SplitFrom(_, _)
SplitFrom(s, cur) ==
  IF s = <<>> THEN <<cur>>
  ELSE IF Head(s) = NL THEN <<cur>> \o SplitFrom(Tail(s), <<>>)
  ELSE SplitFrom(Tail(s), Append(cur, Head(s)))

SplitLines(s) == SplitFrom(s, <<>>)

\* Array.prototype.join('\n')
RECURSIVE JoinLines(_)
JoinLines(ls) ==
  IF ls = <<>> THEN <<>>
  ELSE IF Len(ls) = 1 THEN ls[1]
  ELSE ls[1] \o <<NL>> \o JoinLines(Tail(ls))

\* ------------------------------------------------------------------------
\* createPatch of the diff library: line diff, one hunk, 3 lines of context
\* ------------------------------------------------------------------------
ContextLines == 3

\* line tokens of the line diff: every line keeps its terminator
RECURSIVE TokFrom(_, _)
TokFrom(s, cur) ==
  IF s = <<>> THEN (IF cur = <<>> THEN <<>> ELSE <<cur>>)
  ELSE IF Head(s) = NL THEN <<Append(cur, NL)>> \o TokFrom(Tail(s), <<>>)
  ELSE TokFrom(Tail(s), Append(cur, Head(s)))

Tokenize(s) == TokFrom(s, <<>>)

RECURSIVE LcsLen(_, _)
LcsLen(a, b) ==
  IF a = <<>> \/ b = <<>> THEN 0
  ELSE IF Head(a) = Head(b) THEN 1 + LcsLen(Tail(a), Tail(b))
  ELSE Max(LcsLen(Tail(a), b), LcsLen(a, Tail(b)))

\* the edit script old -> new: removals come before additions
RECURSIVE DiffLines(_, _)
DiffLines(a, b) ==
  IF a = <<>> THEN [i \in 1..Len(b) |-> [op |-> "+", tok |-> b[i]]]
  ELSE IF b = <<>> THEN [i \in 1..Len(a) |-> [op |-> "-", tok |-> a[i]]]
  ELSE IF Head(a) = Head(b)
    THEN <<[op |-> " ", tok |-> Head(a)]>> \o DiffLines(Tail(a), Tail(b))
  ELSE IF LcsLen(Tail(a), b) >= LcsLen(a, Tail(b))
    THEN <<[op |-> "-", tok |-> Head(a)]>> \o DiffLines(Tail(a), b)
  ELSE <<[op |-> "+", tok |-> Head(b)]>> \o DiffLines(a, Tail(b))

RECURSIVE LeadingContext(_)
LeadingContext(es) ==
  IF es = <<>> \/ Head(es).op # " " THEN 0 ELSE 1 + LeadingContext(Tail(es))

RECURSIVE TrailingContext(_)
TrailingContext(es) ==
  IF es = <<>> \/ es[Len(es)].op # " " THEN 0
  ELSE 1 + TrailingContext(SubSeq(es, 1, Len(es) - 1))

CountOps(es, ops) == Cardinality({i \in 1..Len(es) : es[i].op \in ops})

NoNewlineMarker == <<"\\", " No newline at end of file">>

\* one hunk line per edit, plus the marker after a line without terminator
RECURSIVE HunkLines(_)
HunkLines(es) ==
  IF es = <<>> THEN <<>>
  ELSE LET e == Head(es)
           n == Len(e.tok)
       IN IF n > 0 /\ e.tok[n] = NL
            THEN <<(<<e.op>> \o SubSeq(e.tok, 1, n - 1))>> \o HunkLines(Tail(es))
            ELSE <<(<<e.op>> \o e.tok), NoNewlineMarker>> \o HunkLines(Tail(es))

HunkHeader(oldStart, oldLines, newStart, newLines) ==
  <<"@", "@", " ", "-", ToString(oldStart), ",", ToString(oldLines),
    " ", "+", ToString(newStart), ",", ToString(newLines), " ", "@", "@">>

OldFileHeader == <<"-", "-", "-", " ", "content">>

NewFileHeader == <<"+", "+", "+", " ", "content">>

PatchPreamble == << <<"Index: content">>, <<"=======">> >>

createPatch(oldText, newText) ==
  LET es    == DiffLines(Tokenize(oldText), Tokenize(newText))
      lead  == LeadingContext(es)
      trail == TrailingContext(es)
      skip  == Max(0, lead - ContextLines)
      cut   == Max(0, trail - ContextLines)
      hunk  == SubSeq(es, skip + 1, Len(es) - cut)
      oldLines == CountOps(hunk, {" ", "-"})
      newLines == CountOps(hunk, {" ", "+"})
      oldStart == IF oldLines = 0 THEN skip ELSE skip + 1
      newStart == IF newLines = 0 THEN skip ELSE skip + 1
  IN PatchPreamble
       \o <<OldFileHeader, NewFileHeader>>
       \o <<HunkHeader(oldStart, oldLines, newStart, newLines)>>
       \o HunkLines(hunk)
       \o << <<>> >>

\* ------------------------------------------------------------------------
\* HistoryManager.reversePatch: line-by-line rewriting of the patch text
\* ------------------------------------------------------------------------
Minus3 == <<"-", "-", "-">>

Plus3 == <<"+", "+", "+">>

\* the regular expression /@@ -(\d+),?(\d*) \+(\d+),?(\d*) @@/
HeaderMatches(line) ==
  /\ Len(line) = 15
  /\ SubSeq(line, 1, 4) = <<"@", "@", " ", "-">>
  /\ line[6] = "," /\ SubSeq(line, 8, 9) = <<" ", "+">> /\ line[11] = ","
  /\ SubSeq(line, 13, 15) = <<" ", "@", "@">>

ReverseHeader(line) ==
  LET oldStart == line[5]
      oldCount == line[7]
      newStart == line[10]
      newCount == line[12]
      oldPart == IF oldCount # "" THEN <<newStart, ",", newCount>> ELSE <<newStart>>
      newPart == IF newCount # "" THEN <<oldStart, ",", oldCount>> ELSE <<oldStart>>
  IN <<"@", "@", " ", "-">> \o oldPart \o <<" ", "+">> \o newPart \o <<" ", "@", "@">>

ReverseLine(line) ==
  IF StartsWith(line, Minus3) THEN Plus3 \o Drop(line, 3)
  ELSE IF StartsWith(line, Plus3) THEN Minus3 \o Drop(line, 3)
  ELSE IF StartsWith(line, <<"-">>) THEN <<"+">> \o Drop(line, 1)
  ELSE IF StartsWith(line, <<"+">>) THEN <<"-">> \o Drop(line, 1)
  ELSE IF StartsWith(line, <<"@", "@">>)
    THEN (IF HeaderMatches(line) THEN ReverseHeader(line) ELSE line)
  ELSE line

reversePatch(patch) == [i \in 1..Len(patch) |-> ReverseLine(patch[i])]

\* ------------------------------------------------------------------------
\* applyPatch of the diff library (fuzz factor 0): parse, fit, apply
\* ------------------------------------------------------------------------
\* the value applyPatch returns when the patch does not fit
ApplyFailed == <<"false">>

HunkOps == {"+", "-", " ", "\\"}

\* largest line number a hunk header of the model carries
MaxLineNo == 2 * MaxLen + 2

StrNum(s) == CHOOSE n \in 0..MaxLineNo : ToString(n) = s

IsFileHeader(line) ==
  /\ Len(line) >= 4
  /\ SubSeq(line, 1, 3) \in {Minus3, Plus3}
  /\ line[4] = " "

IsHunkHeader(line) == StartsWith(line, <<"@", "@">>)

\* skip the index lines, then the two file headers
RECURSIVE SkipPreamble(_, _)
SkipPreamble(patch, i) ==
  IF i > Len(patch) THEN i
  ELSE IF IsFileHeader(patch[i]) \/ StartsWith(patch[i], <<"@", "@", " ">>) THEN i
  ELSE SkipPreamble(patch, i + 1)

SkipFileHeader(patch, i) ==
  IF i <= Len(patch) /\ IsFileHeader(patch[i]) THEN i + 1 ELSE i

\* the lines of the hunk that starts after line i
RECURSIVE TakeHunkLines(_, _)
TakeHunkLines(patch, i) ==
  IF i > Len(patch) THEN <<>>
  ELSE LET line == patch[i]
           op == IF Len(line) = 0
                   THEN (IF i # Len(patch) THEN " " ELSE "")
                   ELSE line[1]
       IN IF op \in HunkOps
            THEN <<line>> \o TakeHunkLines(patch, i + 1)
            ELSE <<>>

\* parsePatch: the single hunk of the patch, or no hunk
parsePatch(patch) ==
  LET i0 == SkipPreamble(patch, 1)
      i2 == SkipFileHeader(patch, SkipFileHeader(patch, i0))
  IN IF i2 <= Len(patch) /\ IsHunkHeader(patch[i2]) /\ HeaderMatches(patch[i2])
       THEN LET h == patch[i2]
                oldLines == StrNum(h[7])
                newLines == StrNum(h[12])
            IN [hasHunk  |-> TRUE,
                oldStart |-> IF oldLines = 0 THEN StrNum(h[5]) + 1 ELSE StrNum(h[5]),
                oldLines |-> oldLines,
                newStart |-> IF newLines = 0 THEN StrNum(h[10]) + 1 ELSE StrNum(h[10]),
                newLines |-> newLines,
                lines    |-> TakeHunkLines(patch, i2 + 1)]
       ELSE [hasHunk |-> FALSE, oldStart |-> 1, oldLines |-> 0,
             newStart |-> 1, newLines |-> 0, lines |-> <<>>]

\* applyHunk: walk the hunk over lines from position pos (0-based)
RECURSIVE WalkHunk(_, _, _, _)
WalkHunk(hl, lines, pos, out) ==
  IF hl = <<>> THEN [ok |-> TRUE, out |-> out, pos |-> pos]
  ELSE LET line == Head(hl)
           op == IF Len(line) > 0 THEN line[1] ELSE " "
           content == IF Len(line) > 0 THEN Drop(line, 1) ELSE line
           matches == pos + 1 <= Len(lines) /\ lines[pos + 1] = content
           fail == [ok |-> FALSE, out |-> out, pos |-> pos]
       IN CASE op = "-" -> IF matches THEN WalkHunk(Tail(hl), lines, pos + 1, out)
                                      ELSE fail
            [] op = "+" -> WalkHunk(Tail(hl), lines, pos, Append(out, content))
            [] op = " " -> IF matches
                             THEN WalkHunk(Tail(hl), lines, pos + 1, Append(out, content))
                             ELSE fail
            [] OTHER    -> WalkHunk(Tail(hl), lines, pos, out)

MarkerAfter(hl, op) ==
  \E i \in 2..Len(hl) :
    /\ StartsWith(hl[i], <<"\\">>)
    /\ StartsWith(hl[i - 1], <<op>>)

Dist(p, start) == IF p >= start THEN p - start ELSE start - p

applyPatch(source, patch) ==
  LET hunk   == parsePatch(patch)
      lines0 == SplitLines(source)
      last0  == lines0[Len(lines0)]
      removeEOFNL == MarkerAfter(hunk.lines, "+")
      addEOFNL    == MarkerAfter(hunk.lines, "-")
      eofFails ==
        \/ removeEOFNL /\ addEOFNL /\ last0 = <<>>
        \/ removeEOFNL /\ ~addEOFNL /\ last0 # <<>>
        \/ ~removeEOFNL /\ addEOFNL /\ last0 = <<>>
      lines ==
        IF removeEOFNL /\ ~addEOFNL THEN SubSeq(lines0, 1, Len(lines0) - 1)
        ELSE IF addEOFNL /\ ~removeEOFNL THEN Append(lines0, <<>>)
        ELSE lines0
      start   == hunk.oldStart - 1
      maxLine == Len(lines) - hunk.oldLines
      fits == {p \in 0..Max(maxLine, start) :
                 /\ (p = start \/ p <= maxLine)
                 /\ WalkHunk(hunk.lines, lines, p, <<>>).ok}
      best == CHOOSE p \in fits :
                \A q \in fits :
                  \/ Dist(p, start) < Dist(q, start)
                  \/ (Dist(p, start) = Dist(q, start) /\ p >= q)
      walk == WalkHunk(hunk.lines, lines, best, <<>>)
  IN IF ~hunk.hasHunk THEN source
     ELSE IF eofFails \/ fits = {} THEN ApplyFailed
     ELSE JoinLines(SubSeq(lines, 1, best) \o walk.out
                      \o SubSeq(lines, walk.pos + 1, Len(lines)))

\* ------------------------------------------------------------------------
\* State: the document file, the open handles, and what the document held
\* ------------------------------------------------------------------------
VARIABLES
  db,          \* the SQLite file: its tables and their rows
  handles,     \* the PklTranscript objects: access mode and cached fields
  held,        \* held[i]: the stored text right after content_history row i
  heldBefore,  \* the stored text right before the first content_history row
  changed,     \* a text-changing updateContent has completed
  rawFirst,    \* the first raw transcript set: as given and as read back
  lastOp,      \* the last call: operation, handle, argument and outcome
  now,         \* the clock that datetime('now') reads, in seconds
  dir,         \* a directory of .md files with their .pkl targets, and the
               \* migrateDirectory call running on it
  pc           \* pc[h]: where the setRawTranscript call made on handle h is

vars == <<db, handles, held, heldBefore, changed, rawFirst, lastOp, now, dir, pc>>

Handles == {"h1", "h2"}

\* JavaScript null where a text is expected, and SQL NULL in a TEXT column
JsNull == <<"null">>

SqlNull == <<"NULL">>

\* the metadata cache of a handle before it is loaded
NotLoaded == [loaded |-> FALSE, fields |-> <<>>]

EmptyDb ==
  [exists          |-> FALSE,
   tables          |-> {},
   schema_version  |-> <<>>,
   metadata        |-> <<>>,
   content         |-> <<>>,
   content_history |-> <<>>,
   audit_log       |-> <<>>,
   artifacts       |-> <<>>,
   enhancement_log |-> <<>>]

ClosedHandle ==
  [open |-> FALSE, readOnly |-> FALSE, _content |-> JsNull, _contentId |-> 0,
   _metadata |-> NotLoaded]

NoRawFirst == [given |-> <<>>, returned |-> {}]

\* no directory is looked at
NoDir == <<>>

NoOp == [op |-> "none", h |-> "h1", arg |-> <<>>, outcome |-> "none", stmt |-> 0]

\* a handle on which no setRawTranscript call has begun
NotCalled == [at |-> "start", data |-> <<>>, outcome |-> "none"]

NoCalls == [h \in Handles |-> NotCalled]

\* ------------------------------------------------------------------------
\* schema.ts
\* ------------------------------------------------------------------------
CURRENT_SCHEMA_VERSION == 2

SCHEMA_V1 ==
  {"metadata", "content", "content_history", "audit_log", "artifacts",
   "schema_version"}

\* an initializeSchema that stamps whatever the file is stamped with
initializeSchemaStamping(d) ==
  [d EXCEPT !.tables = @ \cup SCHEMA_V1,
            !.schema_version = <<CURRENT_SCHEMA_VERSION>>]

initializeSchema(d) ==
  LET d1 == [d EXCEPT !.tables = @ \cup SCHEMA_V1]
  IN IF d1.schema_version = <<>>
       THEN [d1 EXCEPT !.schema_version = <<CURRENT_SCHEMA_VERSION>>]
       ELSE d1

getSchemaVersion(d) ==
  IF "schema_version" \notin d.tables THEN 0
  ELSE IF d.schema_version = <<>> THEN 0
  ELSE d.schema_version[1]

migrateToLatest(d) ==
  IF getSchemaVersion(d) = 0 THEN initializeSchema(d)
  ELSE [d EXCEPT !.schema_version =
          [i \in DOMAIN @ |-> CURRENT_SCHEMA_VERSION]]

\* a validateSchema that finds every file valid
validateSchemaLax(d) == [valid |-> TRUE, errors |-> {}]

validateSchema(d) ==
  LET requiredTables == {"metadata", "content", "content_history", "audit_log",
                         "artifacts", "schema_version"}
      errors == requiredTables \ d.tables
  IN [valid |-> errors = {}, errors |-> errors]

\* ------------------------------------------------------------------------
\* database.ts
\* ------------------------------------------------------------------------
\* an openDatabase that initializes and migrates in read-only mode too
openDatabaseWriting(d, readonly, create) ==
  IF ~d.exists /\ (~create \/ readonly) THEN [ok |-> FALSE, db |-> d]
  ELSE LET d0 == [d EXCEPT !.exists = TRUE]
           version == getSchemaVersion(d0)
       IN IF version = 0
            THEN [ok |-> TRUE, db |-> initializeSchema(d0)]
            ELSE LET d1 == migrateToLatest(d0)
                 IN [ok |-> validateSchema(d1).valid, db |-> d1]

\* openDatabase: ok is FALSE when the open throws; db is the file afterwards
openDatabase(d, readonly, create) ==
  IF ~d.exists /\ (~create \/ readonly) THEN [ok |-> FALSE, db |-> d]
  ELSE LET d0 == [d EXCEPT !.exists = TRUE]
           version == getSchemaVersion(d0)
       IN IF version = 0 /\ ~readonly
            THEN [ok |-> TRUE, db |-> initializeSchema(d0)]
          ELSE IF version > 0
            THEN LET d1 == IF ~readonly THEN migrateToLatest(d0) ELSE d0
                 IN [ok |-> validateSchema(d1).valid, db |-> d1]
          ELSE [ok |-> TRUE, db |-> d0]

\* a transaction that keeps the writes of a function that throws
transactionWithoutRollback(before, after, threw) == after

\* transaction: fn's writes are kept when it returns and rolled back when it
\* throws; before is the file when the transaction begins, after is the file
\* with the writes fn has made when it returns or throws
transaction(before, after, threw) == IF threw THEN before ELSE after

\* ------------------------------------------------------------------------
\* history.ts: HistoryManager
\* ------------------------------------------------------------------------
\* a saveContentChange that stores no diff
saveContentChangeDropped(d, contentId, oldText, newText, t) == d

saveContentChange(d, contentId, oldText, newText, t) ==
  IF oldText = newText THEN d
  ELSE [d EXCEPT !.content_history =
          Append(@, [id |-> Len(@) + 1, content_id |-> contentId,
                     diff |-> createPatch(oldText, newText),
                     created_at |-> t])]

\* the results getContentHistory may return: the rows of the content item
\* ORDER BY created_at ASC; the query does not fix the order of rows with
\* the same created_at, which datetime('now') gives to the second
getContentHistory(d, contentId) ==
  LET rows == {i \in DOMAIN d.content_history :
                 d.content_history[i].content_id = contentId}
      orders == {o \in [1..Cardinality(rows) -> rows] :
                   /\ \A j, k \in DOMAIN o : j # k => o[j] # o[k]
                   /\ \A j, k \in DOMAIN o :
                        j < k => d.content_history[o[j]].created_at
                                   <= d.content_history[o[k]].created_at}
  IN {[k \in DOMAIN o |-> d.content_history[o[k]]] : o \in orders}

\* the rows of content_history of one content item, in table order
RECURSIVE HistoryRows(_, _)
HistoryRows(rows, contentId) ==
  IF rows = <<>> THEN <<>>
  ELSE IF Head(rows).content_id = contentId
    THEN <<Head(rows)>> \o HistoryRows(Tail(rows), contentId)
  ELSE HistoryRows(Tail(rows), contentId)

Reverse(s) == [i \in 1..Len(s) |-> s[Len(s) + 1 - i]]

\* a selection that takes the row of versionId too
DiffsToReverseInclusive(d, contentId, versionId) ==
  LET rows == HistoryRows(d.content_history, contentId)
      later == SelectSeq(rows, LAMBDA r : r.id >= versionId)
  IN Reverse(later)

\* the rows with id > versionId, ORDER BY id DESC
DiffsToReverse(d, contentId, versionId) ==
  LET rows == HistoryRows(d.content_history, contentId)
      later == SelectSeq(rows, LAMBDA r : r.id > versionId)
  IN Reverse(later)

\* the loop of reconstructContentAtVersion: a patch that does not apply
\* leaves the content as it is
RECURSIVE ReverseDiffs(_, _)
ReverseDiffs(content, diffs) ==
  IF diffs = <<>> THEN content
  ELSE LET result == applyPatch(content, reversePatch(Head(diffs).diff))
       IN ReverseDiffs(IF result # ApplyFailed THEN result ELSE content,
                       Tail(diffs))

\* whether some applyPatch of that loop returns false
RECURSIVE SomePatchFails(_, _)
SomePatchFails(content, diffs) ==
  IF diffs = <<>> THEN FALSE
  ELSE LET result == applyPatch(content, reversePatch(Head(diffs).diff))
       IN \/ result = ApplyFailed
          \/ SomePatchFails(IF result # ApplyFailed THEN result ELSE content,
                            Tail(diffs))

ContentRowExists(d, contentId) == contentId \in 1..Len(d.content)

reconstructContentAtVersion(d, contentId, versionId) ==
  IF ~ContentRowExists(d, contentId) THEN JsNull
  ELSE ReverseDiffs(d.content[contentId].text,
                    DiffsToReverse(d, contentId, versionId))

getVersionCount(d, contentId) ==
  Len(HistoryRows(d.content_history, contentId))

\* ------------------------------------------------------------------------
\* JavaScript values and their JSON text
\* A column of type TEXT holds a sequence of tokens: a plain string is one
\* token, a JSON text one token per lexical element.
\* ------------------------------------------------------------------------
\* the value undefined, and what JSON.stringify returns for it
JsUndefined == [t |-> "undefined", v |-> ""]

NoJson == <<"undefined">>

IsUndefined(v) == v.t = "undefined"

Str(s) == [t |-> "string", v |-> s]

Num(n) == [t |-> "number", v |-> n]

\* a Date object, by its day
DateOf(d) == [t |-> "Date", v |-> d]

\* an array, by its elements (strings or numbers)
Arr(es) == [t |-> "array", v |-> es]

\* an object, by its properties <<key, value>> in insertion order
Obj(ps) == [t |-> "object", v |-> ps]

Days == {1, 2}

Numbers == {0, 1}

\* Date.prototype.toISOString
toISOString(d) == "2025-01-0" \o ToString(d) \o "T00:00:00.000Z"

Strings ==
  {"", "A", "B", "x", "y", "u1", "u2", "destination", "reasoning", "model",
   "confidence", "m", "from", "to", "at", "initial", "enhanced", "id",
   "description", "status", "created", "changed", "completed", "open",
   "done", "t1", "projects", "name"} \cup {toISOString(d) : d \in Days}

Quote(s) == "\"" \o s \o "\""

Unquote(tok) == CHOOSE s \in Strings : Quote(s) = tok

IsQuoted(tok) == \E s \in Strings : Quote(s) = tok

\* a date written by hand, without the time
DateOnly(d) == "2025-01-0" \o ToString(d)

\* a new Date(string) that keeps the string
ParseDateAsText(s) == Str(s)

\* new Date(string)
ParseDate(s) == DateOf(CHOOSE d \in Days : s \in {toISOString(d), DateOnly(d)})

\* String(value) of a string or a number
ToText(v) == IF v.t = "number" THEN <<ToString(v.v)>> ELSE <<v.v>>

parseFloat(s) == Num(CHOOSE n \in Numbers : ToString(n) = s)

ScalarJson(v) ==
  CASE v.t = "string" -> Quote(v.v)
    [] v.t = "number" -> ToString(v.v)
    [] v.t = "Date"   -> Quote(toISOString(v.v))

\* the properties JSON.stringify writes: those that are not undefined
Defined(ps) == SelectSeq(ps, LAMBDA p : ~IsUndefined(p[2]))

RECURSIVE ObjectTokens(_)
RECURSIVE ArrayTokens(_)
RECURSIVE ElementTokens(_)
ObjectTokens(ps) ==
  IF ps = <<>> THEN <<>>
  ELSE IF Len(ps) = 1 THEN <<Quote(ps[1][1]), ":">> \o ElementTokens(ps[1][2])
  ELSE <<Quote(ps[1][1]), ":">> \o ElementTokens(ps[1][2]) \o <<",">>
         \o ObjectTokens(Tail(ps))

\* a property value or an element of an array: a scalar, an object or an array
ElementTokens(v) ==
  IF v.t = "object" THEN <<"{">> \o ObjectTokens(Defined(v.v)) \o <<"}">>
  ELSE IF v.t = "array" THEN <<"[">> \o ArrayTokens(v.v) \o <<"]">>
  ELSE <<ScalarJson(v)>>

ArrayTokens(es) ==
  IF es = <<>> THEN <<>>
  ELSE IF Len(es) = 1 THEN ElementTokens(es[1])
  ELSE ElementTokens(es[1]) \o <<",">> \o ArrayTokens(Tail(es))

\* JSON.stringify: properties are written in the order the object holds them
JSONstringify(v) ==
  IF IsUndefined(v) THEN NoJson
  ELSE CASE v.t \in {"string", "number", "Date"} -> <<ScalarJson(v)>>
         [] v.t = "array"  -> <<"[">> \o ArrayTokens(v.v) \o <<"]">>
         [] v.t = "object" -> <<"{">> \o ObjectTokens(Defined(v.v)) \o <<"}">>

ParseScalar(tok) ==
  IF IsQuoted(tok) THEN Str(Unquote(tok))
  ELSE Num(CHOOSE n \in Numbers : ToString(n) = tok)

\* the index of the bracket that closes the innermost of the depth brackets
\* open at position i
RECURSIVE MatchClose(_, _, _)
MatchClose(toks, i, depth) ==
  IF toks[i] \in {"}", "]"}
    THEN (IF depth = 1 THEN i ELSE MatchClose(toks, i + 1, depth - 1))
  ELSE IF toks[i] \in {"{", "["} THEN MatchClose(toks, i + 1, depth + 1)
  ELSE MatchClose(toks, i + 1, depth)

\* the index of the last token of the value that begins at position i
ValueEnd(toks, i) ==
  IF toks[i] \in {"{", "["} THEN MatchClose(toks, i + 1, 1) ELSE i

RECURSIVE ParseMembers(_)
RECURSIVE ParseElements(_)

\* JSON.parse of the tokens of one value
ParseValue(toks) ==
  IF Head(toks) = "{" THEN Obj(ParseMembers(SubSeq(toks, 2, Len(toks) - 1)))
  ELSE IF Head(toks) = "[" THEN Arr(ParseElements(SubSeq(toks, 2, Len(toks) - 1)))
  ELSE ParseScalar(Head(toks))

\* JSON.parse of the tokens between the braces of an object
ParseMembers(toks) ==
  IF toks = <<>> THEN <<>>
  ELSE IF Head(toks) = "," THEN ParseMembers(Tail(toks))
  ELSE CHOOSE members \in
         {<< <<Unquote(toks[1]), ParseValue(value)>> >> \o ParseMembers(rest) :
            value \in {SubSeq(toks, 3, ValueEnd(toks, 3))},
            rest \in {SubSeq(toks, ValueEnd(toks, 3) + 1, Len(toks))}} : TRUE

\* JSON.parse of the tokens of an object, braces included
ParseObject(toks) == Obj(ParseMembers(SubSeq(toks, 2, Len(toks) - 1)))

\* JSON.parse of the tokens between the brackets of an array
ParseElements(toks) ==
  IF toks = <<>> THEN <<>>
  ELSE IF Head(toks) = "," THEN ParseElements(Tail(toks))
  ELSE CHOOSE elements \in
         {<<ParseValue(value)>> \o ParseElements(rest) :
            value \in {SubSeq(toks, 1, ValueEnd(toks, 1))},
            rest \in {SubSeq(toks, ValueEnd(toks, 1) + 1, Len(toks))}} : TRUE

\* JSON.parse of an array or of an object
JSONparse(toks) ==
  IF Head(toks) = "["
    THEN Arr(ParseElements(SubSeq(toks, 2, Len(toks) - 1)))
    ELSE ParseObject(toks)

\* deep equality of two values: the order of an object's properties is
\* immaterial, the order of an array's elements is not
DeepEqual(a, b) ==
  IF IsUndefined(a) \/ IsUndefined(b) THEN IsUndefined(a) /\ IsUndefined(b)
  ELSE /\ a.t = b.t
       /\ IF a.t = "object"
            THEN {a.v[i] : i \in DOMAIN a.v} = {b.v[i] : i \in DOMAIN b.v}
            ELSE a.v = b.v

\* ------------------------------------------------------------------------
\* metadata.ts: the metadata table holds one row per key
\* A metadata object is the sequence of its properties <<key, value>>.
\* ------------------------------------------------------------------------
SIMPLE_STRING_KEYS ==
  <<"id", "title", "project", "projectId", "recordingTime", "duration",
    "audioFile", "audioHash", "errorDetails">>

JSON_KEYS == <<"tags", "routing", "history", "tasks", "entities">>

HasKey(ps, key) == \E i \in DOMAIN ps : ps[i][1] = key

\* object[key]
Get(ps, key) ==
  IF HasKey(ps, key)
    THEN ps[CHOOSE i \in DOMAIN ps : ps[i][1] = key /\
                 \A j \in DOMAIN ps : ps[j][1] = key => j <= i][2]
    ELSE JsUndefined

\* the truth value of a JavaScript value
Truthy(v) ==
  CASE v.t \in {"undefined", "null"} -> FALSE
    [] v.t = "string"    -> v.v # ""
    [] v.t = "number"    -> v.v # 0
    [] OTHER             -> TRUE

\* a write that leaves the row it writes as the only one
UpsertAlone(d, key, value, t) ==
  [d EXCEPT !.metadata = (key :> [value |-> value, updated_at |-> t])]

\* INSERT OR REPLACE INTO metadata (key, value, updated_at)
Upsert(d, key, value, t) ==
  [d EXCEPT !.metadata = (key :> [value |-> value, updated_at |-> t]) @@ @]

RECURSIVE SaveEach(_, _, _, _, _)
SaveEach(d, metadata, keys, kind, t) ==
  IF keys = <<>> THEN d
  ELSE LET key == Head(keys)
           value == Get(metadata, key)
           text == CASE kind = "json" -> JSONstringify(value)
                     [] kind = "date" /\ value.t = "Date" -> <<toISOString(value.v)>>
                     [] OTHER -> ToText(value)
       IN SaveEach(IF ~IsUndefined(value) THEN Upsert(d, key, text, t) ELSE d,
                   metadata, Tail(keys), kind, t)

saveMetadata(d, metadata, t) ==
  LET d1 == SaveEach(d, metadata, SIMPLE_STRING_KEYS, "string", t)
      d2 == SaveEach(d1, metadata, <<"date">>, "date", t)
      d3 == SaveEach(d2, metadata, <<"status">>, "string", t)
      d4 == SaveEach(d3, metadata, <<"confidence">>, "string", t)
  IN SaveEach(d4, metadata, JSON_KEYS, "json", t)

\* dataMap.get(key) of loadMetadata, as a text or as absent
HasRow(d, key) == key \in DOMAIN d.metadata

RowIsTruthy(d, key) == HasRow(d, key) /\ d.metadata[key].value # <<"">>

RECURSIVE LoadStrings(_, _)
LoadStrings(d, keys) ==
  IF keys = <<>> THEN <<>>
  ELSE (IF Head(keys) # "id" /\ HasRow(d, Head(keys))
          THEN << <<Head(keys), Str(d.metadata[Head(keys)].value[1])>> >>
          ELSE <<>>)
       \o LoadStrings(d, Tail(keys))

\* t.changed ? new Date(t.changed) : undefined
DateIfTruthy(v) == IF Truthy(v) THEN ParseDate(v.v) ELSE JsUndefined

\* the object parsed.map builds from an entry of history
StatusTransitionOf(h) ==
  Obj(<< <<"from", Get(h.v, "from")>>, <<"to", Get(h.v, "to")>>,
         <<"at", ParseDate(Get(h.v, "at").v)>> >>)

\* the object parsed.map builds from an entry of tasks
TaskOf(t) ==
  Obj(<< <<"id", Get(t.v, "id")>>, <<"description", Get(t.v, "description")>>,
         <<"status", Get(t.v, "status")>>,
         <<"created", ParseDate(Get(t.v, "created").v)>>,
         <<"changed", DateIfTruthy(Get(t.v, "changed"))>>,
         <<"completed", DateIfTruthy(Get(t.v, "completed"))>> >>)

\* the value of a JSON field as loadMetadata returns it: the timestamps of
\* history and tasks are made Dates again
Rehydrate(key, parsed) ==
  CASE key = "history" ->
         Arr([i \in DOMAIN parsed.v |-> StatusTransitionOf(parsed.v[i])])
    [] key = "tasks" -> Arr([i \in DOMAIN parsed.v |-> TaskOf(parsed.v[i])])
    [] OTHER -> parsed

RECURSIVE LoadJson(_, _)
LoadJson(d, keys) ==
  IF keys = <<>> THEN <<>>
  ELSE (IF RowIsTruthy(d, Head(keys))
          THEN << <<Head(keys),
                    Rehydrate(Head(keys),
                              JSONparse(d.metadata[Head(keys)].value))>> >>
          ELSE <<>>)
       \o LoadJson(d, Tail(keys))

\* loadMetadata: uuid is what randomUUID() returns if it is called
loadMetadata(d, uuid) ==
  << <<"id", Str(IF RowIsTruthy(d, "id") THEN d.metadata["id"].value[1] ELSE uuid)>> >>
    \o LoadStrings(d, SIMPLE_STRING_KEYS)
    \o (IF RowIsTruthy(d, "date")
          THEN << <<"date", ParseDate(d.metadata["date"].value[1])>> >> ELSE <<>>)
    \o (IF RowIsTruthy(d, "status")
          THEN << <<"status", Str(d.metadata["status"].value[1])>> >> ELSE <<>>)
    \o (IF RowIsTruthy(d, "confidence")
          THEN << <<"confidence", parseFloat(d.metadata["confidence"].value[1])>> >>
          ELSE <<>>)
    \o LoadJson(d, JSON_KEYS)

\* the loop of updateMetadata over Object.entries(updates); n counts the
\* statements run so far in the transaction, statement number fail throws
RECURSIVE UpdateEach(_, _, _, _, _, _, _)
UpdateEach(d, currentMetadata, entries, changes, n, fail, t) ==
  IF entries = <<>>
    THEN [db |-> d, changes |-> changes, threw |-> FALSE, n |-> n]
  ELSE LET key == Head(entries)[1]
           newValue == Head(entries)[2]
           oldValue == Get(currentMetadata, key)
           change == [field |-> key, oldValue |-> oldValue, newValue |-> newValue]
           serialized ==
             IF key = "date" /\ newValue.t = "Date" THEN <<toISOString(newValue.v)>>
             ELSE IF newValue.t \in {"Date", "array", "object"}
               THEN JSONstringify(newValue)
             ELSE ToText(newValue)
       IN IF IsUndefined(newValue)
            THEN UpdateEach(d, currentMetadata, Tail(entries), changes, n, fail, t)
          ELSE IF JSONstringify(oldValue) = JSONstringify(newValue)
            THEN UpdateEach(d, currentMetadata, Tail(entries), changes, n, fail, t)
          ELSE IF n + 1 = fail
            THEN [db |-> d, changes |-> Append(changes, change), threw |-> TRUE,
                  n |-> n + 1]
          ELSE UpdateEach(Upsert(d, key, serialized, t), currentMetadata,
                          Tail(entries), Append(changes, change), n + 1, fail, t)

updateMetadata(d, updates, uuid, n, fail, t) ==
  UpdateEach(d, loadMetadata(d, uuid), updates, <<>>, n, fail, t)

\* ------------------------------------------------------------------------
\* audit.ts: AuditManager
\* ------------------------------------------------------------------------
AuditText(value) == IF ~IsUndefined(value) THEN JSONstringify(value) ELSE SqlNull

RECURSIVE logChanges(_, _, _, _, _)
logChanges(d, changes, n, fail, t) ==
  IF changes = <<>> THEN [db |-> d, threw |-> FALSE, n |-> n]
  ELSE IF n + 1 = fail THEN [db |-> d, threw |-> TRUE, n |-> n + 1]
  ELSE LET c == Head(changes)
           row == [id |-> Len(d.audit_log) + 1,
                   field |-> c.field,
                   old_value |-> AuditText(c.oldValue),
                   new_value |-> AuditText(c.newValue),
                   changed_at |-> t]
       IN logChanges([d EXCEPT !.audit_log = Append(@, row)],
                     Tail(changes), n + 1, fail, t)

getAuditCount(d) == Len(d.audit_log)

\* the results a query of audit_log ORDER BY changed_at DESC may return for
\* the rows it selects: the query does not fix the order of rows with the
\* same changed_at, which datetime('now') gives to the second
NewestFirst(d, rows) ==
  LET orders == {o \in [1..Cardinality(rows) -> rows] :
                   /\ \A j, k \in DOMAIN o : j # k => o[j] # o[k]
                   /\ \A j, k \in DOMAIN o :
                        j < k => d.audit_log[o[j]].changed_at
                                   >= d.audit_log[o[k]].changed_at}
  IN {[k \in DOMAIN o |-> d.audit_log[o[k]]] : o \in orders}

getAuditTrail(d) == NewestFirst(d, DOMAIN d.audit_log)

getFieldHistory(d, field) ==
  NewestFirst(d, {i \in DOMAIN d.audit_log : d.audit_log[i].field = field})

\* ------------------------------------------------------------------------
\* artifacts.ts: ArtifactManager
\* ------------------------------------------------------------------------
\* a Buffer, by the text it holds
Buffer(text) == [t |-> "Buffer", v |-> text]

\* the value null
NullValue == [t |-> "null", v |-> ""]

addArtifact(d, type, data, metadata, t) ==
  [d EXCEPT !.artifacts =
     Append(@, [id |-> Len(@) + 1,
                type |-> type,
                data |-> data,
                metadata |-> IF Truthy(metadata)
                               THEN JSONstringify(metadata) ELSE SqlNull,
                created_at |-> t])]

ArtifactsOfType(d, type) ==
  {i \in DOMAIN d.artifacts : d.artifacts[i].type = type}

\* the rows ORDER BY created_at DESC LIMIT 1 may return: the order of rows
\* with the same created_at is not fixed by the query
LatestArtifacts(d, type) ==
  {i \in ArtifactsOfType(d, type) :
     \A j \in ArtifactsOfType(d, type) :
       d.artifacts[j].created_at <= d.artifacts[i].created_at}

\* getArtifact when the query returns row i
ArtifactOfRow(d, i) ==
  [id |-> d.artifacts[i].id,
   type |-> d.artifacts[i].type,
   data |-> d.artifacts[i].data,
   metadata |-> IF d.artifacts[i].metadata # SqlNull
                  THEN JSONparse(d.artifacts[i].metadata) ELSE NullValue,
   createdAt |-> d.artifacts[i].created_at]

\* the values getArtifact may return
getArtifact(d, type) ==
  IF ArtifactsOfType(d, type) = {} THEN {NullValue}
  ELSE {ArtifactOfRow(d, i) : i \in LatestArtifacts(d, type)}

hasArtifact(d, type) == ArtifactsOfType(d, type) # {}

RawFields ==
  <<"model", "duration", "audioFile", "audioHash", "transcribedAt", "confidence">>

RECURSIVE TruthyFields(_, _)
TruthyFields(data, keys) ==
  IF keys = <<>> THEN <<>>
  ELSE (IF Truthy(Get(data, Head(keys)))
          THEN << <<Head(keys), Get(data, Head(keys))>> >> ELSE <<>>)
       \o TruthyFields(data, Tail(keys))

setRawTranscript(d, data, t) ==
  addArtifact(d, "raw_transcript", Buffer(Get(data, "text").v),
              Obj(TruthyFields(data, RawFields)), t)

\* the value null where a raw transcript is expected
NoRawTranscript == <<>>

\* getRawTranscript when getArtifact returns row i
RawTranscriptOfRow(d, i) ==
  LET artifact == ArtifactOfRow(d, i)
      metadata == IF artifact.metadata.t # "null" THEN artifact.metadata.v ELSE <<>>
  IN IF artifact.data.t = "null" THEN NoRawTranscript
     ELSE << <<"text", Str(artifact.data.v)>> >>
            \o [k \in DOMAIN RawFields |-> <<RawFields[k], Get(metadata, RawFields[k])>>]

\* the values getRawTranscript may return
getRawTranscript(d) ==
  IF LatestArtifacts(d, "raw_transcript") = {} THEN {NoRawTranscript}
  ELSE {RawTranscriptOfRow(d, i) : i \in LatestArtifacts(d, "raw_transcript")}

hasRawTranscript(d) == hasArtifact(d, "raw_transcript")

\* ------------------------------------------------------------------------
\* transcript.ts: PklTranscript
\* A call returns the file and the object as it leaves them, its outcome
\* ("ok", or the error it throws) and the number of the statement that threw.
\* ------------------------------------------------------------------------
Result(d, hd, outcome, stmt) ==
  [db |-> d, handle |-> hd, outcome |-> outcome, stmt |-> stmt]

\* INSERT INTO content (type, text) VALUES ('enhanced', text)
InsertContent(d, text, t) ==
  [d EXCEPT !.content =
     Append(@, [id |-> Len(@) + 1, type |-> "enhanced", text |-> text,
                created_at |-> t, updated_at |-> t])]

\* UPDATE content SET text = ?, updated_at = datetime('now') WHERE id = ?
UpdateContentRow(d, id, text, t) ==
  IF ContentRowExists(d, id)
    THEN [d EXCEPT !.content[id].text = text, !.content[id].updated_at = t]
    ELSE d

\* { ...metadata, id }
SetProperty(ps, key, value) ==
  IF HasKey(ps, key)
    THEN [i \in DOMAIN ps |-> IF ps[i][1] = key THEN <<key, value>> ELSE ps[i]]
    ELSE Append(ps, <<key, value>>)

\* create, with the initialize it runs; threw: a statement of initialize throws
PklTranscript_create(d, metadata, uuid, threw, t) ==
  LET r == openDatabase(d, FALSE, TRUE)
      id == IF Truthy(Get(metadata, "id")) THEN Get(metadata, "id") ELSE Str(uuid)
      metadataWithId == SetProperty(metadata, "id", id)
      d1 == InsertContent(saveMetadata(r.db, metadataWithId, t), EmptyText, t)
      hd == [open |-> TRUE, readOnly |-> FALSE, _content |-> EmptyText,
             _contentId |-> Len(d1.content),
             _metadata |-> [loaded |-> TRUE, fields |-> metadataWithId]]
  IN IF ~r.ok THEN Result(r.db, ClosedHandle, "error", 0)
     ELSE IF threw THEN Result(transaction(r.db, d1, TRUE), ClosedHandle, "error", 1)
     ELSE Result(transaction(r.db, d1, FALSE), hd, "ok", 0)

\* the rows SELECT ... WHERE type = 'enhanced' ORDER BY updated_at DESC
\* LIMIT 1 may return
LatestContent(d) ==
  LET enhanced == {i \in DOMAIN d.content : d.content[i].type = "enhanced"}
  IN {i \in enhanced :
        \A j \in enhanced : d.content[j].updated_at <= d.content[i].updated_at}

\* load, when the content query returns row (0: no row)
load(d, hd, uuid, row) ==
  [hd EXCEPT !._metadata = [loaded |-> TRUE, fields |-> loadMetadata(d, uuid)],
             !._contentId = IF row = 0 THEN 0 ELSE d.content[row].id,
             !._content = IF row = 0 THEN JsNull ELSE d.content[row].text]

\* an open that stores the identity it has made up
PklTranscript_openStoring(d, readOnly, uuid, row) ==
  LET r == openDatabase(d, readOnly, ~readOnly)
      hd == [ClosedHandle EXCEPT !.open = TRUE, !.readOnly = readOnly]
      d1 == IF RowIsTruthy(r.db, "id") THEN r.db
            ELSE Upsert(r.db, "id", <<uuid>>, 0)
  IN IF ~r.ok \/ {"metadata", "content"} \ r.db.tables # {}
       THEN Result(r.db, ClosedHandle, "error", 0)
       ELSE Result(d1, load(d1, hd, uuid, row), "ok", 0)

PklTranscript_open(d, readOnly, uuid, row) ==
  LET r == openDatabase(d, readOnly, ~readOnly)
      hd == [ClosedHandle EXCEPT !.open = TRUE, !.readOnly = readOnly]
  IN IF ~r.ok \/ {"metadata", "content"} \ r.db.tables # {}
       THEN Result(r.db, ClosedHandle, "error", 0)
       ELSE Result(r.db, load(r.db, hd, uuid, row), "ok", 0)

\* the metadata accessor: the cache is filled by loadMetadata when it is empty
PklTranscript_metadata(d, hd, uuid) ==
  LET loaded == IF hd._metadata.loaded THEN hd
                ELSE [hd EXCEPT !._metadata =
                        [loaded |-> TRUE, fields |-> loadMetadata(d, uuid)]]
  IN Result(d, loaded, loaded._metadata.fields, 0)

\* the content accessor
content(hd) == IF hd._content = JsNull THEN EmptyText ELSE hd._content

\* updateContent; fail names the statement of the transaction that throws
\* when it runs: "insert", "diff", "update" or "commit" ("none": none does)
PklTranscript_updateContent(d, hd, newContent, fail, t) ==
  LET oldContent == content(hd)
      inserted == InsertContent(d, newContent, t)
      saves == oldContent # EmptyText
      \* the foreign key of content_history rejects a diff of a missing row
      diffThrows == saves /\ (fail = "diff" \/ ~ContentRowExists(d, hd._contentId))
      d1 == IF saves /\ ~diffThrows
              THEN saveContentChange(d, hd._contentId, oldContent, newContent, t)
              ELSE d
      updateThrows == ~diffThrows /\ fail = "update"
      d2 == IF diffThrows \/ updateThrows THEN d1
            ELSE UpdateContentRow(d1, hd._contentId, newContent, t)
      commitThrows == ~diffThrows /\ ~updateThrows /\ fail = "commit"
      threw == diffThrows \/ updateThrows \/ commitThrows
      nDiff == IF saves THEN 1 ELSE 0
      stmt == IF diffThrows THEN 1
              ELSE IF updateThrows THEN nDiff + 1
              ELSE IF commitThrows THEN nDiff + 2 ELSE 0
  IN IF hd.readOnly THEN Result(d, hd, "accessViolation", 0)
     ELSE IF oldContent = newContent THEN Result(d, hd, "ok", 0)
     ELSE IF hd._contentId = 0
       THEN (IF fail = "insert" THEN Result(transaction(d, d, TRUE), hd, "error", 1)
             ELSE Result(transaction(d, inserted, fail = "commit"),
                         [hd EXCEPT !._contentId = Len(inserted.content),
                                    !._content = newContent],
                         IF fail = "commit" THEN "error" ELSE "ok",
                         IF fail = "commit" THEN 2 ELSE 0))
     ELSE Result(transaction(d, d2, threw),
                 IF diffThrows \/ updateThrows THEN hd
                 ELSE [hd EXCEPT !._content = newContent],
                 IF threw THEN "error" ELSE "ok", stmt)

PklTranscript_setRawTranscript(d, hd, data, t) ==
  IF hd.readOnly THEN Result(d, hd, "accessViolation", 0)
  ELSE IF hasRawTranscript(d) THEN Result(d, hd, "writeOnce", 0)
  ELSE Result(setRawTranscript(d, data, t), hd, "ok", 0)

\* an updateMetadata that takes the current values from the handle's cached
\* metadata when the cache is filled
PklTranscript_updateMetadataCached(d, hd, updates, uuid, fail, t) ==
  LET current == IF hd._metadata.loaded THEN hd._metadata.fields
                 ELSE loadMetadata(d, uuid)
      u == UpdateEach(d, current, updates, <<>>, 0, fail, t)
      l == IF ~u.threw /\ Len(u.changes) > 0
             THEN logChanges(u.db, u.changes, u.n, fail, t)
             ELSE [db |-> u.db, threw |-> u.threw, n |-> u.n]
      commitThrows == ~l.threw /\ fail = l.n + 1
      threw == l.threw \/ commitThrows
  IN IF hd.readOnly THEN Result(d, hd, "accessViolation", 0)
     ELSE Result(transaction(d, l.db, threw),
                 IF l.threw THEN hd ELSE [hd EXCEPT !._metadata = NotLoaded],
                 IF threw THEN "error" ELSE "ok",
                 IF threw THEN (IF l.threw THEN l.n ELSE l.n + 1) ELSE 0)

PklTranscript_updateMetadata(d, hd, updates, uuid, fail, t) ==
  LET u == updateMetadata(d, updates, uuid, 0, fail, t)
      l == IF ~u.threw /\ Len(u.changes) > 0
             THEN logChanges(u.db, u.changes, u.n, fail, t)
             ELSE [db |-> u.db, threw |-> u.threw, n |-> u.n]
      commitThrows == ~l.threw /\ fail = l.n + 1
      threw == l.threw \/ commitThrows
  IN IF hd.readOnly THEN Result(d, hd, "accessViolation", 0)
     ELSE Result(transaction(d, l.db, threw),
                 IF l.threw THEN hd ELSE [hd EXCEPT !._metadata = NotLoaded],
                 IF threw THEN "error" ELSE "ok",
                 IF threw THEN (IF l.threw THEN l.n ELSE l.n + 1) ELSE 0)

PklTranscript_getContentAtVersion(d, hd, versionId) ==
  IF hd._contentId = 0 THEN JsNull
  ELSE reconstructContentAtVersion(d, hd._contentId, versionId)

PklTranscript_getVersionCount(d, hd) ==
  IF hd._contentId = 0 THEN 0 ELSE getVersionCount(d, hd._contentId)

\* an addArtifact that does not look at the access mode
addArtifactUnguarded(d, hd, type, data, metadata, t) ==
  Result(addArtifact(d, type, data, metadata, t), hd, "ok", 0)

PklTranscript_addArtifact(d, hd, type, data, metadata, t) ==
  IF hd.readOnly THEN Result(d, hd, "accessViolation", 0)
  ELSE Result(addArtifact(d, type, data, metadata, t), hd, "ok", 0)

\* ------------------------------------------------------------------------
\* Actions: one call of the public interface each
\* ------------------------------------------------------------------------
\* what a call leaves behind: the file, the object, and the record of the call
Apply(h, op, arg, r) ==
  /\ db' = r.db
  /\ handles' = [handles EXCEPT ![h] = r.handle]
  /\ lastOp' = [op |-> op, h |-> h, arg |-> arg, outcome |-> r.outcome,
                stmt |-> r.stmt]

Create(h, metadata, uuid, threw) ==
  /\ ~handles[h].open
  /\ Apply(h, "create", metadata,
           PklTranscript_create(db, metadata, uuid, threw, now))
  /\ UNCHANGED <<held, heldBefore, changed, rawFirst, now, dir, pc>>

Open(h, readOnly, uuid) ==
  /\ ~handles[h].open
  /\ \E row \in (IF LatestContent(db) = {} THEN {0} ELSE LatestContent(db)) :
       Apply(h, "open", <<>>, PklTranscript_open(db, readOnly, uuid, row))
  /\ UNCHANGED <<held, heldBefore, changed, rawFirst, now, dir, pc>>

Close(h) ==
  /\ handles[h].open
  /\ handles' = [handles EXCEPT ![h] = ClosedHandle]
  /\ lastOp' = [op |-> "close", h |-> h, arg |-> <<>>, outcome |-> "ok", stmt |-> 0]
  /\ UNCHANGED <<db, held, heldBefore, changed, rawFirst, now, dir, pc>>

UpdateContent(h, newContent, fail) ==
  /\ handles[h].open
  /\ Len(db.content_history) < MaxDiffs
  /\ LET hd == handles[h]
         r == PklTranscript_updateContent(db, hd, newContent, fail, now)
         recorded == Len(r.db.content_history) > Len(db.content_history)
     IN /\ Apply(h, "updateContent", newContent, r)
        /\ held' = IF recorded
                     THEN Append(held, r.db.content[hd._contentId].text)
                     ELSE held
        /\ heldBefore' = IF recorded /\ db.content_history = <<>>
                           THEN db.content[hd._contentId].text
                           ELSE heldBefore
        /\ changed' = (changed \/ (r.outcome = "ok" /\ content(hd) # newContent))
  /\ UNCHANGED <<rawFirst, now, dir, pc>>

\* ------------------------------------------------------------------------
\* SpecContent: one read-write handle on a fresh path; its content calls,
\* any write of which may throw
\* ------------------------------------------------------------------------
Init ==
  /\ db = EmptyDb
  /\ handles = [h \in Handles |-> ClosedHandle]
  /\ held = <<>>
  /\ heldBefore = JsNull
  /\ changed = FALSE
  /\ rawFirst = NoRawFirst
  /\ lastOp = NoOp
  /\ now = 0
  /\ pc = NoCalls
  /\ dir = NoDir

PlainMetadata == << <<"id", Str("u1")>>, <<"title", Str("A")>> >>

\* the texts the content calls are given
ContentTexts == {s \in Texts : \A i \in DOMAIN s : s[i] \in {"a", "+", NL}}

\* the statements of updateContent that may throw
ContentFails == {"none", "insert", "diff", "update"}

NextContent ==
  \/ \E threw \in BOOLEAN :
       ~db.exists /\ Create("h1", PlainMetadata, "u2", threw)
  \/ Open("h1", FALSE, "u2")
  \/ Close("h1")
  \/ \E newContent \in ContentTexts, fail \in ContentFails :
       UpdateContent("h1", newContent, fail)

SpecContent == Init /\ [][NextContent]_vars

\* ------------------------------------------------------------------------
\* SpecHistory: the HistoryManager alone, over one content row that starts
\* with any text; each update is recorded with saveContentChange and stored
\* ------------------------------------------------------------------------
InitHistory ==
  /\ \E text0 \in Texts :
       /\ db = InsertContent(initializeSchema([EmptyDb EXCEPT !.exists = TRUE]),
                             text0, 0)
       /\ heldBefore = text0
  /\ handles = [h \in Handles |-> ClosedHandle]
  /\ held = <<>>
  /\ changed = FALSE
  /\ rawFirst = NoRawFirst
  /\ lastOp = NoOp
  /\ now = 0
  /\ pc = NoCalls
  /\ dir = NoDir

SaveChange(newText) ==
  /\ Len(db.content_history) < MaxDiffs
  /\ db' = UpdateContentRow(
             saveContentChange(db, 1, db.content[1].text, newText, now),
             1, newText, now)
  /\ held' = IF newText # db.content[1].text THEN Append(held, newText) ELSE held
  /\ lastOp' = [op |-> "saveContentChange", h |-> "h1", arg |-> newText,
                outcome |-> "ok", stmt |-> 0]
  /\ UNCHANGED <<handles, heldBefore, changed, rawFirst, now, dir, pc>>

NextHistory == \E newText \in Texts : SaveChange(newText)

SpecHistory == InitHistory /\ [][NextHistory]_vars

\* ------------------------------------------------------------------------
\* Properties of the content calls
\* ------------------------------------------------------------------------
\* a text: a sequence of characters (null and false are not)
IsText(x) == \A i \in DOMAIN x : x[i] \in Chars

\* C1, as stated: a call updateContent(new) made when the text is old adds
\* exactly one stored diff if old # new and none if old = new
C1_CountFollowsChange ==
  [][(lastOp'.op = "updateContent" /\ lastOp'.outcome = "ok") =>
       LET old == content(handles["h1"])
           new == lastOp'.arg
           before == PklTranscript_getVersionCount(db, handles["h1"])
           after == PklTranscript_getVersionCount(db', handles'["h1"])
       IN /\ old # new => after = before + 1
          /\ old = new => after = before]_vars

\* C1, amended: a call updateContent(new) that returns, made when the text is
\* old, adds exactly one stored diff if old # new and old is not empty, adds
\* none if old = new, and adds none on the first change of the empty initial
\* text
C1_CountFollowsChangeOfNonEmpty ==
  [][(lastOp'.op = "updateContent" /\ lastOp'.outcome = "ok") =>
       LET old == content(handles["h1"])
           new == lastOp'.arg
           before == PklTranscript_getVersionCount(db, handles["h1"])
           after == PklTranscript_getVersionCount(db', handles'["h1"])
       IN /\ (old # new /\ old # EmptyText) => after = before + 1
          /\ old = new => after = before
          /\ (old = EmptyText /\ ~changed) => after = before]_vars

\* a text-changing updateContent has just recorded a diff
C1_DiffRecorded ==
  /\ lastOp.op = "updateContent" /\ lastOp.outcome = "ok"
  /\ held # <<>> /\ held[Len(held)] = lastOp.arg
  /\ Len(db.content_history) = Len(held)

\* C2: of the text-changing updateContent calls on one handle, only the first
\* change of the empty initial text appends no diff; every later one, also one
\* made after the text was set back to the empty string, appends exactly one
C2_OnlyFirstChangeIsExempt ==
  [][(/\ lastOp'.op = "updateContent" /\ lastOp'.outcome = "ok"
      /\ content(handles["h1"]) # lastOp'.arg) =>
       LET first == ~changed /\ content(handles["h1"]) = EmptyText
           before == PklTranscript_getVersionCount(db, handles["h1"])
           after == PklTranscript_getVersionCount(db', handles'["h1"])
       IN after = IF first THEN before ELSE before + 1]_vars

\* C3: after any updates text0 -> ... -> textN, each recorded with
\* saveContentChange and textN stored, reconstructing version 0 gives text0
C3_VersionZeroIsFirstText ==
  reconstructContentAtVersion(db, 1, 0) = heldBefore

\* C4: for every stored diff d, getContentAtVersion(d.id) is the text the
\* document held right after the call that recorded d, and
\* getContentAtVersion(0) is the text it held right before the first diff
C4_VersionIsTextAfterDiff ==
  LET hd == handles["h1"]
  IN (hd.open /\ hd._contentId # 0) =>
       /\ \A i \in 1..Len(held) :
            PklTranscript_getContentAtVersion(db, hd, i) = held[i]
       /\ held # <<>> => PklTranscript_getContentAtVersion(db, hd, 0) = heldBefore

\* C5: when a reversed diff does not apply to the text reached so far, the
\* reconstruction reports an error and returns no text
C5_FailedPatchIsReported ==
  \A versionId \in 0..Len(db.content_history) :
    SomePatchFails(db.content[1].text, DiffsToReverse(db, 1, versionId)) =>
      ~IsText(reconstructContentAtVersion(db, 1, versionId))

\* C6: an updateContent of which a step throws persists neither the new diff
\* nor the new text
C6_FailedUpdatePersistsNothing ==
  [][(lastOp'.op = "updateContent" /\ lastOp'.outcome = "error") => db' = db]_vars

\* the text update has thrown after the diff was appended
C6_UpdateThrewAfterDiff ==
  /\ lastOp.op = "updateContent" /\ lastOp.outcome = "error" /\ lastOp.stmt = 2
  /\ content(handles["h1"]) # EmptyText
  /\ content(handles["h1"]) # lastOp.arg

\* ------------------------------------------------------------------------
\* SpecMetadata: one read-write handle; updateMetadata with up to MaxFields
\* fields, any statement of which may throw, while the clock advances
\* ------------------------------------------------------------------------
UpdateMetadata(h, updates, uuid, fail) ==
  /\ handles[h].open
  /\ Len(db.audit_log) < MaxAudit
  /\ Apply(h, "updateMetadata", updates,
           PklTranscript_updateMetadata(db, handles[h], updates, uuid, fail, now))
  /\ UNCHANGED <<held, heldBefore, changed, rawFirst, now, dir, pc>>

Tick ==
  /\ now < MaxClock
  /\ now' = now + 1
  /\ lastOp' = [op |-> "tick", h |-> "h1", arg |-> <<>>, outcome |-> "ok", stmt |-> 0]
  /\ UNCHANGED <<db, handles, held, heldBefore, changed, rawFirst, dir, pc>>

RoutingXY == Obj(<< <<"destination", Str("x")>>, <<"reasoning", Str("y")>> >>)

\* the same routing, its properties in the other order
RoutingYX == Obj(<< <<"reasoning", Str("y")>>, <<"destination", Str("x")>> >>)

FullMetadata ==
  << <<"id", Str("u1")>>, <<"title", Str("A")>>, <<"date", DateOf(1)>>,
     <<"confidence", Num(1)>>, <<"tags", Arr(<<Str("x")>>)>>,
     <<"routing", RoutingXY>> >>

\* the fields an updateMetadata call may carry
UpdateEntries ==
  {<<"title", v>> : v \in {Str("A"), Str("B"), JsUndefined}}
    \cup {<<"routing", v>> : v \in {RoutingXY, RoutingYX}}
    \cup {<<"tags", v>> : v \in {Arr(<<Str("x")>>), Arr(<<Str("x"), Str("y")>>)}}
    \cup {<<"date", DateOf(1)>>, <<"confidence", Num(1)>>}

Updates ==
  {u \in UNION {[1..n -> UpdateEntries] : n \in 0..MaxFields} :
     \A i, j \in DOMAIN u : i # j => u[i][1] # u[j][1]}

\* the statements of updateMetadata's transaction: at most one write and one
\* audit row per field, then COMMIT
MetadataFails == 0..(2 * MaxFields + 1)

NextMetadata ==
  \/ \E metadata \in {PlainMetadata, FullMetadata} :
       ~db.exists /\ Create("h1", metadata, "u2", FALSE)
  \/ \E updates \in Updates, fail \in MetadataFails :
       UpdateMetadata("h1", updates, "u2", fail)
  \/ Tick

SpecMetadata == Init /\ [][NextMetadata]_vars

\* the value a field holds before an updateMetadata call
Current(key) == Get(loadMetadata(db, "u2"), key)

\* C7: an updateMetadata in which every supplied value is deep-equal to the
\* field's current value appends no audit entry and writes no metadata row
C7_EqualValuesWriteNothing ==
  [][(/\ lastOp'.op = "updateMetadata" /\ lastOp'.outcome = "ok"
      /\ \A i \in DOMAIN lastOp'.arg :
           DeepEqual(Current(lastOp'.arg[i][1]), lastOp'.arg[i][2])) =>
       /\ db'.audit_log = db.audit_log
       /\ db'.metadata = db.metadata]_vars

\* C8: a successful updateMetadata appends exactly one audit entry per field
\* whose value genuinely changed, with the field's old and new value, and
\* writes those fields; a failed one persists neither writes nor entries
C8_OneEntryPerChangedField ==
  [][(lastOp'.op = "updateMetadata") =>
       LET entries == SubSeq(db'.audit_log, Len(db.audit_log) + 1,
                             Len(db'.audit_log))
           genuine == SelectSeq(lastOp'.arg,
                        LAMBDA e : ~IsUndefined(e[2])
                                     /\ ~DeepEqual(Current(e[1]), e[2]))
       IN IF lastOp'.outcome = "ok"
            THEN /\ Len(entries) = Len(genuine)
                 /\ \A i \in DOMAIN genuine :
                      /\ entries[i].field = genuine[i][1]
                      /\ entries[i].old_value = AuditText(Current(genuine[i][1]))
                      /\ entries[i].new_value = AuditText(genuine[i][2])
                      /\ DeepEqual(Get(loadMetadata(db', "u2"), genuine[i][1]),
                                   genuine[i][2])
            ELSE db' = db]_vars

\* ------------------------------------------------------------------------
\* The artifact calls
\* ------------------------------------------------------------------------
SetRawTranscript(h, data) ==
  /\ handles[h].open
  /\ LET r == PklTranscript_setRawTranscript(db, handles[h], data, now)
     IN /\ Len(r.db.artifacts) <= MaxArtifacts
        /\ Apply(h, "setRawTranscript", data, r)
        /\ rawFirst' = IF r.outcome = "ok" /\ rawFirst.returned = {}
                         THEN [given |-> data, returned |-> getRawTranscript(r.db)]
                         ELSE rawFirst
  /\ UNCHANGED <<held, heldBefore, changed, now, dir, pc>>

AddArtifact(h, type, data, metadata) ==
  /\ handles[h].open
  /\ LET r == PklTranscript_addArtifact(db, handles[h], type, data, metadata, now)
     IN /\ Len(r.db.artifacts) <= MaxArtifacts
        /\ Apply(h, "addArtifact", <<type, data, metadata>>, r)
  /\ UNCHANGED <<held, heldBefore, changed, rawFirst, now, dir, pc>>

RawPayloads ==
  { << <<"text", Str("x")>> >>,
    << <<"text", Str("y")>>, <<"model", Str("m")>> >>,
    << <<"text", Str("A")>>, <<"model", Str("")>>, <<"confidence", Num(0)>> >> }

\* addArtifact takes any type, the one of the raw transcript included
ArtifactTypes == {"summary", "raw_transcript"}

ArtifactData == {Buffer("x"), NullValue}

ArtifactMetadata == {JsUndefined, Obj(<< <<"model", Str("m")>> >>)}

\* ------------------------------------------------------------------------
\* SpecArtifacts: one read-write handle; the raw transcript and custom
\* artifacts, while the clock advances
\* ------------------------------------------------------------------------
NextArtifacts ==
  \/ ~db.exists /\ Create("h1", PlainMetadata, "u2", FALSE)
  \/ Open("h1", FALSE, "u2")
  \/ Close("h1")
  \/ \E data \in RawPayloads : SetRawTranscript("h1", data)
  \/ \E type \in ArtifactTypes, data \in ArtifactData, metadata \in ArtifactMetadata :
       AddArtifact("h1", type, data, metadata)
  \/ Tick

SpecArtifacts == Init /\ [][NextArtifacts]_vars

\* C10: a setRawTranscript made on a read-write document after one that
\* succeeded raises the write-once error, and getRawTranscript then still
\* returns the payload of the first call: its text and every side field it
\* supplied
C10_SecondSetKeepsFirstPayload ==
  [][(/\ lastOp'.op = "setRawTranscript"
      /\ ~handles[lastOp'.h].readOnly
      /\ rawFirst.given # <<>>) =>
       /\ lastOp'.outcome = "writeOnce"
       /\ \A raw \in getRawTranscript(db') :
            /\ raw # NoRawTranscript
            /\ \A k \in DOMAIN rawFirst.given :
                 Get(raw, rawFirst.given[k][1]) = rawFirst.given[k][2]]_vars

\* ------------------------------------------------------------------------
\* SpecAccess: a read-write handle and a read-only handle on one document,
\* and every mutating call on each
\* ------------------------------------------------------------------------
AccessTexts == {<<"a">>, <<"+">>}

AccessUpdates == { << <<"title", Str("B")>> >>, << <<"title", Str("A")>> >> }

NextAccess ==
  \/ ~db.exists /\ Create("h1", PlainMetadata, "u2", FALSE)
  \/ Open("h1", FALSE, "u2")
  \/ Open("h2", TRUE, "u2")
  \/ \E h \in Handles : Close(h)
  \/ \E h \in Handles, newContent \in AccessTexts : UpdateContent(h, newContent, "none")
  \/ \E h \in Handles, updates \in AccessUpdates : UpdateMetadata(h, updates, "u2", 0)
  \/ \E h \in Handles, data \in RawPayloads : SetRawTranscript(h, data)
  \/ \E h \in Handles, type \in ArtifactTypes :
       AddArtifact(h, type, Buffer("x"), JsUndefined)

SpecAccess == Init /\ [][NextAccess]_vars

Mutators == {"updateContent", "updateMetadata", "addArtifact", "setRawTranscript"}

\* C9: on a document opened read-only, updateContent, updateMetadata,
\* addArtifact and setRawTranscript raise the access violation whatever their
\* argument, and leave the stored document as it is
C9_ReadOnlyRejectsMutation ==
  [][(lastOp'.op \in Mutators /\ handles[lastOp'.h].readOnly) =>
       /\ lastOp'.outcome = "accessViolation"
       /\ db' = db]_vars

\* a read-only handle has been asked to change the text
C9_ReadOnlyAsked ==
  /\ lastOp.op = "updateContent" /\ lastOp.outcome = "accessViolation"
  /\ handles[lastOp.h].readOnly
  /\ content(handles[lastOp.h]) # lastOp.arg

\* C11: whatever setRawTranscript and addArtifact calls are made, with any
\* type, the document holds at most one artifact of the type raw_transcript,
\* and once it holds one the value getRawTranscript returns never changes
C11_RawTranscriptIsWriteOnce ==
  [][/\ Cardinality(ArtifactsOfType(db', "raw_transcript")) <= 1
     /\ hasRawTranscript(db) => getRawTranscript(db') = getRawTranscript(db)]_vars

\* ------------------------------------------------------------------------
\* SpecSchema: files as generations of the program leave them (stamped with
\* a version or not, with or without each table), and the schema calls,
\* openDatabase and the open, create, updateContent and close of
\* PklTranscript on them
\* ------------------------------------------------------------------------
\* the newest generation that has stamped a file
MaxVersion == 3

\* the content rows a file may come to hold
MaxStreams == 2

\* a file without the tables in missing, stamped sv; documents written before
\* version 2 may have no id row
StoredFile(missing, sv, withId) ==
  LET tables == SCHEMA_V1 \ missing
      stamp == IF "schema_version" \in tables THEN sv ELSE <<>>
      d0 == [EmptyDb EXCEPT !.exists = TRUE, !.tables = tables,
                            !.schema_version = stamp]
      d1 == IF "metadata" \in tables /\ stamp # <<>>
              THEN Upsert(d0, "title", <<"A">>, 0) ELSE d0
      d2 == IF "metadata" \in tables /\ stamp # <<>> /\ withId
              THEN Upsert(d1, "id", <<"u1">>, 0) ELSE d1
  IN IF "content" \in tables /\ stamp # <<>>
       THEN InsertContent(d2, EmptyText, 0) ELSE d2

StoredFiles ==
  {EmptyDb} \cup
  {StoredFile(c[1], c[2], c[3]) :
     c \in {c \in (SUBSET SCHEMA_V1)
                      \X ({<<>>} \cup {<<v>> : v \in 1..MaxVersion})
                      \X BOOLEAN :
              c[3] \/ c[2] = <<1>>}}

InitSchema ==
  /\ db \in StoredFiles
  /\ handles = [h \in Handles |-> ClosedHandle]
  /\ held = <<>>
  /\ heldBefore = JsNull
  /\ changed = FALSE
  /\ rawFirst = NoRawFirst
  /\ lastOp = NoOp
  /\ now = 0
  /\ pc = NoCalls
  /\ dir = NoDir

\* a call on the file that leaves the handles as they are
SchemaCall(op, arg, d, outcome) ==
  /\ db' = d
  /\ lastOp' = [op |-> op, h |-> "h1", arg |-> arg, outcome |-> outcome, stmt |-> 0]
  /\ UNCHANGED <<handles, held, heldBefore, changed, rawFirst, now, dir, pc>>

InitializeSchema ==
  /\ db.exists
  /\ SchemaCall("initializeSchema", <<>>, initializeSchema(db), "ok")

MigrateToLatest ==
  /\ db.exists
  /\ "schema_version" \in db.tables
  /\ SchemaCall("migrateToLatest", <<>>, migrateToLatest(db), "ok")

OpenDatabase(readonly, create) ==
  LET r == openDatabase(db, readonly, create)
  IN SchemaCall("openDatabase", [readonly |-> readonly, create |-> create],
                r.db, IF r.ok THEN "ok" ELSE "error")

NextSchema ==
  \/ InitializeSchema
  \/ MigrateToLatest
  \/ \E readonly \in BOOLEAN, create \in BOOLEAN : OpenDatabase(readonly, create)
  \/ \E readOnly \in BOOLEAN : Open("h1", readOnly, "u2")
  \/ Len(db.content) < MaxStreams /\ Create("h1", PlainMetadata, "u2", FALSE)
  \/ Close("h1")
  \/ \E newContent \in AccessTexts : UpdateContent("h1", newContent, "none")

SpecSchema == InitSchema /\ [][NextSchema]_vars

\* C12: the version a file is stamped with never decreases, whatever it is
\* stamped with and whichever of initializeSchema, migrateToLatest and open,
\* read-only or writable, runs on it
C12_VersionNeverDecreases ==
  [][getSchemaVersion(db') >= getSchemaVersion(db)]_vars

\* C13: an open, openDatabase or the open of PklTranscript, that fails on a
\* file that lacks a required table leaves the file exactly as it was, the
\* version it is stamped with included
C13_FailedOpenChangesNothing ==
  [][(/\ lastOp'.op \in {"openDatabase", "open"}
      /\ lastOp'.outcome = "error"
      /\ db.exists
      /\ ~validateSchema(db).valid) => db' = db]_vars

\* C14: a writable openDatabase either fails or leaves a file stamped with
\* the current version that holds every table validateSchema requires, which
\* are the tables of SCHEMA_V1;
\* on a file stamped with a version above 0 that lacks a required table it
\* always fails
C14_WritableOpenIsCurrentAndValid ==
  [][(lastOp'.op = "openDatabase" /\ ~lastOp'.arg.readonly) =>
       /\ lastOp'.outcome = "ok" =>
            /\ getSchemaVersion(db') = CURRENT_SCHEMA_VERSION
            /\ SCHEMA_V1 \subseteq db'.tables
       /\ (getSchemaVersion(db) > 0 /\ ~(SCHEMA_V1 \subseteq db.tables)) =>
            lastOp'.outcome = "error"]_vars

\* a writable openDatabase has failed on a stamped file that lacks a table
C14_BrokenFileRefused ==
  /\ lastOp.op = "openDatabase" /\ ~lastOp.arg.readonly
  /\ lastOp.outcome = "error"
  /\ getSchemaVersion(db) > 0
  /\ ~(SCHEMA_V1 \subseteq db.tables)

\* C15: after create, and after a writable open of a stamped document that
\* succeeds, the metadata table holds a row for the key id
C15_IdentityIsStored ==
  [][(/\ lastOp'.outcome = "ok"
      /\ \/ lastOp'.op = "create"
         \/ /\ lastOp'.op = "open"
            /\ ~handles'[lastOp'.h].readOnly
            /\ getSchemaVersion(db) > 0) => HasRow(db', "id")]_vars

\* C16: create leaves exactly one content row of the type enhanced, also on
\* a path that already holds a document, and open, updateContent and close
\* on a document that holds exactly one leave exactly one
C16_OneEnhancedStream ==
  [][(/\ lastOp'.op \in {"create", "open", "updateContent", "close"}
      /\ lastOp'.outcome = "ok"
      /\ \/ lastOp'.op = "create"
         \/ Cardinality({i \in DOMAIN db.content :
                           db.content[i].type = "enhanced"}) = 1) =>
       Cardinality({i \in DOMAIN db'.content :
                      db'.content[i].type = "enhanced"}) = 1]_vars

\* C17: getContentHistory returns the diffs of a content item in the order
\* they were appended, oldest first, also those appended in the same second
C17_HistoryInInsertionOrder ==
  \A result \in getContentHistory(db, 1) :
    \A j, k \in DOMAIN result : j < k => result[j].id < result[k].id

\* C18: getAuditTrail and getFieldHistory return the audit entries newest
\* first: of two entries returned, the one logged later comes first, also
\* when both were logged in the same second
C18_AuditNewestFirst ==
  \A result \in getAuditTrail(db)
                  \cup UNION {getFieldHistory(db, field) :
                                field \in {"title", "tags", "routing"}} :
    \A j, k \in DOMAIN result : j < k => result[j].id > result[k].id

\* C19: getArtifact of a type returns the data and the metadata given to the
\* latest addArtifact of that type, null for data null and for metadata left
\* out, and returns null while the document holds no artifact of the type
C19_GetArtifactReturnsLatest ==
  [][/\ (lastOp'.op = "addArtifact" /\ lastOp'.outcome = "ok") =>
          \A a \in getArtifact(db', lastOp'.arg[1]) :
            /\ "data" \in DOMAIN a
            /\ a.data = lastOp'.arg[2]
            /\ a.metadata = IF IsUndefined(lastOp'.arg[3])
                              THEN NullValue ELSE lastOp'.arg[3]
     /\ \A type \in ArtifactTypes :
          ArtifactsOfType(db', type) = {} =>
            getArtifact(db', type) = {NullValue}]_vars

\* C20: setRawTranscript(data) on a document without a raw transcript makes
\* hasRawTranscript true and getRawTranscript return the text of data and,
\* for every side field data supplies, the value data gives it
C20_RawTranscriptReadsBack ==
  [][(/\ lastOp'.op = "setRawTranscript"
      /\ lastOp'.outcome = "ok"
      /\ ~hasRawTranscript(db)) =>
       /\ hasRawTranscript(db')
       /\ \A raw \in getRawTranscript(db') :
            /\ raw # NoRawTranscript
            /\ \A key \in {"text"} \cup {RawFields[i] : i \in DOMAIN RawFields} :
                 HasKey(lastOp'.arg, key) =>
                   Get(raw, key) = Get(lastOp'.arg, key)]_vars

\* ------------------------------------------------------------------------
\* enhancementLog.ts: EnhancementLogManager
\* ------------------------------------------------------------------------
\* the most rows the enhancement log is grown to
MaxLog == 3

\* a step, as logStep and logSteps are given it
Step(timestamp, phase, action, details, entities) ==
  [timestamp |-> timestamp, phase |-> phase, action |-> action,
   details |-> details, entities |-> entities]

\* INSERT INTO enhancement_log (timestamp, phase, action, details, entities)
InsertStep(d, step) ==
  [d EXCEPT !.enhancement_log =
     Append(@, [id        |-> Len(@) + 1,
                timestamp |-> toISOString(step.timestamp.v),
                phase     |-> step.phase,
                action    |-> step.action,
                details   |-> IF Truthy(step.details)
                                THEN JSONstringify(step.details) ELSE SqlNull,
                entities  |-> IF Truthy(step.entities)
                                THEN JSONstringify(step.entities) ELSE SqlNull])]

\* a statement on enhancement_log can be prepared and, if it writes, run
LogStatementRuns(d, hd, writes) ==
  /\ "enhancement_log" \in d.tables
  /\ ~(writes /\ hd.readOnly)

logStep(d, hd, step) ==
  IF LogStatementRuns(d, hd, TRUE)
    THEN Result(InsertStep(d, step), hd, "ok", 0)
    ELSE Result(d, hd, "error", 0)

RECURSIVE InsertSteps(_, _)
InsertSteps(d, steps) ==
  IF steps = <<>> THEN d ELSE InsertSteps(InsertStep(d, Head(steps)), Tail(steps))

logSteps(d, hd, steps) ==
  IF LogStatementRuns(d, hd, steps # <<>>)
    THEN Result(transaction(d, InsertSteps(d, steps), FALSE), hd, "ok", 0)
    ELSE Result(d, hd, "error", 0)

\* the row of enhancement_log as the entry getEnhancementLog returns
LogEntry(row) ==
  [id        |-> row.id,
   timestamp |-> ParseDate(row.timestamp),
   phase     |-> row.phase,
   action    |-> row.action,
   details   |-> IF row.details # SqlNull THEN JSONparse(row.details)
                 ELSE JsUndefined,
   entities  |-> IF row.entities # SqlNull THEN JSONparse(row.entities)
                 ELSE JsUndefined]

\* the rows the query of getEnhancementLog selects: a condition is added
\* for an option that is truthy
LogRowsSelected(d, options) ==
  {i \in DOMAIN d.enhancement_log :
     /\ Truthy(options.phase) => d.enhancement_log[i].phase = options.phase.v
     /\ Truthy(options.action) => d.enhancement_log[i].action = options.action.v}

\* ORDER BY timestamp ASC compares the stored texts; the texts toISOString
\* writes for the days of the model are ordered as the days are; rows of one
\* timestamp come in any order
getEnhancementLog(d, options) ==
  LET rows == LogRowsSelected(d, options)
      day(i) == ParseDate(d.enhancement_log[i].timestamp).v
      orders == {o \in [1..Cardinality(rows) -> rows] :
                   /\ \A j, k \in DOMAIN o : j # k => o[j] # o[k]
                   /\ \A j, k \in DOMAIN o : j < k => day(o[j]) <= day(o[k])}
  IN {[k \in DOMAIN o |-> LogEntry(d.enhancement_log[o[k]])] : o \in orders}

LogStep(h, step) ==
  /\ handles[h].open
  /\ Len(db.enhancement_log) < MaxLog
  /\ Apply(h, "logStep", step, logStep(db, handles[h], step))
  /\ UNCHANGED <<held, heldBefore, changed, rawFirst, now, dir, pc>>

LogSteps(h, steps) ==
  /\ handles[h].open
  /\ Len(db.enhancement_log) + Len(steps) <= MaxLog
  /\ Apply(h, "logSteps", steps, logSteps(db, handles[h], steps))
  /\ UNCHANGED <<held, heldBefore, changed, rawFirst, now, dir, pc>>

\* getEnhancementLog(options): the list returned is the outcome
GetEnhancementLog(h, options) ==
  /\ handles[h].open
  /\ IF LogStatementRuns(db, handles[h], FALSE)
       THEN \E log \in getEnhancementLog(db, options) :
              Apply(h, "getEnhancementLog", options,
                    Result(db, handles[h], log, 0))
       ELSE Apply(h, "getEnhancementLog", options,
                  Result(db, handles[h], "error", 0))
  /\ UNCHANGED <<held, heldBefore, changed, rawFirst, now, dir, pc>>

\* ------------------------------------------------------------------------
\* SpecLog: the enhancement log of one document, on a path that holds no
\* file or a file that holds the enhancement_log table beside the tables of
\* SCHEMA_V1
\* ------------------------------------------------------------------------
LAYOUT == SCHEMA_V1 \cup {"enhancement_log"}

LogFiles ==
  {EmptyDb,
   [initializeSchema([EmptyDb EXCEPT !.exists = TRUE]) EXCEPT !.tables = LAYOUT]}

InitLog ==
  /\ db \in LogFiles
  /\ handles = [h \in Handles |-> ClosedHandle]
  /\ held = <<>>
  /\ heldBefore = JsNull
  /\ changed = FALSE
  /\ rawFirst = NoRawFirst
  /\ lastOp = NoOp
  /\ now = 0
  /\ pc = NoCalls
  /\ dir = NoDir

LogStepInputs ==
  {Step(DateOf(d), phase, action, JsUndefined, JsUndefined) :
     d \in Days, phase \in {"transcribe", "enhance"}, action \in {"", "a"}}
  \cup {Step(DateOf(1), "enhance", "a", Obj(<< <<"m", Num(1)>> >>),
             Arr(<<Str("x")>>))}

\* an option not given is undefined
LogOptions ==
  [phase  : {JsUndefined, Str("transcribe"), Str("enhance")},
   action : {JsUndefined, Str(""), Str("a")}]

NextLog ==
  \/ ~db.exists /\ Create("h1", PlainMetadata, "u2", FALSE)
  \/ \E readOnly \in BOOLEAN : Open("h1", readOnly, "u2")
  \/ Close("h1")
  \/ \E step \in LogStepInputs : LogStep("h1", step)
  \/ \E s1, s2 \in LogStepInputs : LogSteps("h1", <<s1, s2>>)
  \/ \E options \in LogOptions : GetEnhancementLog("h1", options)

SpecLog == InitLog /\ [][NextLog]_vars

\* the option is given: it is not undefined
OptionGiven(v) == ~IsUndefined(v)

\* C21: on a file that holds the enhancement_log table, the list
\* getEnhancementLog returns is in ascending order of the timestamps the
\* callers gave, and it holds exactly the entries whose phase and action
\* equal every option given
C21_LogIsSortedAndFiltered ==
  (/\ lastOp.op = "getEnhancementLog"
   /\ "enhancement_log" \in db.tables)
  => LET log == lastOp.outcome
         options == lastOp.arg
         matching == {i \in DOMAIN db.enhancement_log :
                        /\ OptionGiven(options.phase)
                             => db.enhancement_log[i].phase = options.phase.v
                        /\ OptionGiven(options.action)
                             => db.enhancement_log[i].action = options.action.v}
     IN /\ \A j, k \in DOMAIN log :
             j < k => log[j].timestamp.v <= log[k].timestamp.v
        /\ {log[k].id : k \in DOMAIN log} = matching
        /\ Len(log) = Cardinality(matching)

\* C22: a create that succeeds leaves a file that holds every relation of
\* the persisted layout, enhancement_log included, and a logStep through a
\* writable handle succeeds and appends exactly one entry
C22_CreatedFileHoldsLayout ==
  [][/\ (lastOp'.op = "create" /\ lastOp'.outcome = "ok")
          => LAYOUT \subseteq db'.tables
     /\ (lastOp'.op = "logStep" /\ ~handles["h1"].readOnly)
          => /\ lastOp'.outcome = "ok"
             /\ Len(db'.enhancement_log) = Len(db.enhancement_log) + 1]_vars

\* C23: for every content row with at least one diff,
\* reconstructContentAtVersion at the id of the diff appended last returns
\* the text the row holds
C23_LatestVersionIsStoredText ==
  \A contentId \in DOMAIN db.content :
    LET rows == HistoryRows(db.content_history, contentId)
    IN rows # <<>> =>
         reconstructContentAtVersion(db, contentId, rows[Len(rows)].id)
           = db.content[contentId].text

\* two diffs are stored and each of the three versions is another text
C23_TwoDiffsThreeTexts ==
  /\ Len(HistoryRows(db.content_history, 1)) = 2
  /\ reconstructContentAtVersion(db, 1, 1) # db.content[1].text
  /\ reconstructContentAtVersion(db, 1, 0) # db.content[1].text
  /\ reconstructContentAtVersion(db, 1, 0) # reconstructContentAtVersion(db, 1, 1)

\* C24: initializeSchema adds the tables of SCHEMA_V1 to those the file
\* holds and leaves exactly one stamped version: the one the file was
\* stamped with if it was stamped, the current one otherwise; a second
\* initializeSchema changes nothing; getSchemaVersion is 0 on a file without
\* the schema_version table or without a row in it
C24_InitializeSchemaIsIdempotent ==
  [][/\ lastOp'.op = "initializeSchema" =>
          /\ db'.tables = db.tables \cup SCHEMA_V1
          /\ Len(db'.schema_version) = 1
          /\ db'.schema_version =
               (IF db.schema_version # <<>> THEN db.schema_version
                ELSE <<CURRENT_SCHEMA_VERSION>>)
          /\ lastOp.op = "initializeSchema" => db' = db
     /\ ("schema_version" \notin db.tables \/ db.schema_version = <<>>)
          => getSchemaVersion(db) = 0]_vars

\* initializeSchema has run on a file stamped with another version than the
\* current one
C24_InitializedWithOtherStamp ==
  /\ lastOp.op = "initializeSchema"
  /\ db.schema_version # <<>>
  /\ db.schema_version[1] # CURRENT_SCHEMA_VERSION
  /\ SCHEMA_V1 \subseteq db.tables

\* C25: an open in read-only mode, openDatabase or the open of
\* PklTranscript, leaves the file as it was: its tables, the version it is
\* stamped with and every row, whether the file holds no schema, an older
\* version or the current one
C25_ReadOnlyOpenChangesNothing ==
  [][(\/ lastOp'.op = "openDatabase" /\ lastOp'.arg.readonly
      \/ lastOp'.op = "open" /\ handles'["h1"].open /\ handles'["h1"].readOnly)
     => db' = db]_vars

\* a file stamped with version 1 has been opened read-only
C25_OldFileOpenedReadOnly ==
  /\ lastOp.op = "open"
  /\ handles["h1"].open
  /\ handles["h1"].readOnly
  /\ getSchemaVersion(db) = 1

\* ------------------------------------------------------------------------
\* SpecCodec: saveMetadata, loadMetadata and updateMetadata of metadata.ts on
\* the metadata table of one file, and the open and the metadata accessor of
\* PklTranscript that call loadMetadata
\* ------------------------------------------------------------------------
\* a file of the current version without metadata, and one written before
\* documents had an id: it holds a title only
CodecFiles ==
  LET d == initializeSchema([EmptyDb EXCEPT !.exists = TRUE])
  IN {d, InsertContent(Upsert(d, "title", <<"A">>, 0), EmptyText, 0)}

InitCodec ==
  /\ db \in CodecFiles
  /\ handles = [h \in Handles |-> ClosedHandle]
  /\ held = <<>>
  /\ heldBefore = JsNull
  /\ changed = FALSE
  /\ rawFirst = NoRawFirst
  /\ lastOp = NoOp
  /\ now = 0
  /\ pc = NoCalls
  /\ dir = NoDir

StatusHistory ==
  Arr(<<Obj(<< <<"from", Str("initial")>>, <<"to", Str("enhanced")>>,
               <<"at", DateOf(2)>> >>)>>)

\* two tasks: an open one, its changed undefined, and a completed one
Tasks ==
  Arr(<<Obj(<< <<"id", Str("t1")>>, <<"description", Str("A")>>,
               <<"status", Str("open")>>, <<"created", DateOf(1)>>,
               <<"changed", JsUndefined>> >>),
        Obj(<< <<"id", Str("x")>>, <<"description", Str("")>>,
               <<"status", Str("done")>>, <<"created", DateOf(1)>>,
               <<"changed", DateOf(2)>>, <<"completed", DateOf(2)>> >>)>>)

\* the records saveMetadata is given
CodecRecords ==
  {FullMetadata,
   << <<"id", Str("u1")>>, <<"status", Str("enhanced")>>,
      <<"history", StatusHistory>>, <<"tasks", Tasks>> >>,
   << <<"id", Str("u1")>>, <<"title", Str("")>>, <<"confidence", Num(0)>>,
      <<"tags", Arr(<<>>)>>, <<"history", Arr(<<>>)>> >>,
   << <<"id", Str("u2")>>, <<"title", JsUndefined>>, <<"date", DateOf(2)>> >>,
   << <<"title", Str("B")>>, <<"tasks", Tasks>> >>}

CodecUpdates ==
  {<< <<"title", Str("B")>> >>,
   << <<"title", JsUndefined>>, <<"tags", Arr(<<Str("x")>>)>> >>,
   << <<"history", StatusHistory>>, <<"date", JsUndefined>> >>,
   << <<"status", Str("initial")>>, <<"tasks", Tasks>> >>}

\* the calls of metadata.ts are made while no handle is open on the file;
\* saveMetadata is called on a file that holds at most one row
SaveMetadata(metadata) ==
  /\ ~handles["h1"].open
  /\ Cardinality(DOMAIN db.metadata) <= 1
  /\ SchemaCall("saveMetadata", metadata, saveMetadata(db, metadata, now), "ok")

\* loadMetadata: the record returned is the outcome
LoadMetadata(uuid) ==
  /\ ~handles["h1"].open
  /\ SchemaCall("loadMetadata", <<>>, db, loadMetadata(db, uuid))

\* updateMetadata of metadata.ts: the changes returned are the outcome
UpdateMetadataRows(updates, uuid) ==
  LET u == updateMetadata(db, updates, uuid, 0, 0, now)
  IN /\ ~handles["h1"].open
     /\ SchemaCall("updateMetadata", updates, u.db, u.changes)

Metadata(h, uuid) ==
  /\ handles[h].open
  /\ Apply(h, "metadata", <<>>, PklTranscript_metadata(db, handles[h], uuid))
  /\ UNCHANGED <<held, heldBefore, changed, rawFirst, now, dir, pc>>

NextCodec ==
  \/ \E metadata \in CodecRecords : SaveMetadata(metadata)
  \/ LoadMetadata("u2")
  \/ \E updates \in CodecUpdates : UpdateMetadataRows(updates, "u2")
  \/ \E readOnly \in BOOLEAN : Open("h1", readOnly, "u2")
  \/ \E updates \in CodecUpdates : UpdateMetadata("h1", updates, "u2", 0)
  \/ Metadata("h1", "u2")
  \/ Close("h1")

SpecCodec == InitCodec /\ [][NextCodec]_vars

\* the keys of the properties of an object that are not undefined
PresentKeys(ps) == {ps[i][1] : i \in {i \in DOMAIN ps : ~IsUndefined(ps[i][2])}}

\* C26: saveMetadata and updateMetadata remove no row of the metadata
\* table, and a row whose key is not the key of a field that is present, not
\* undefined, in the argument is afterwards what it was before: neither
\* added nor rewritten
C26_OnlyPresentKeysAreWritten ==
  [][lastOp'.op \in {"saveMetadata", "updateMetadata"} =>
       /\ DOMAIN db.metadata \subseteq DOMAIN db'.metadata
       /\ \A key \in DOMAIN db'.metadata \ PresentKeys(lastOp'.arg) :
            /\ key \in DOMAIN db.metadata
            /\ db'.metadata[key] = db.metadata[key]]_vars

\* a save or an update that carries an undefined field has written another
\* field of a file that holds rows it does not carry
C26_WroteBesideOtherRows ==
  /\ lastOp.op \in {"saveMetadata", "updateMetadata"}
  /\ \E i \in DOMAIN lastOp.arg : IsUndefined(lastOp.arg[i][2])
  /\ PresentKeys(lastOp.arg) # {}
  /\ DOMAIN db.metadata \ {lastOp.arg[i][1] : i \in DOMAIN lastOp.arg} # {}
  /\ \E key \in PresentKeys(lastOp.arg) : db.metadata[key].updated_at = now

\* the fields of TranscriptMetadata
MetadataKeys ==
  {"id", "title", "date", "recordingTime", "duration", "project", "projectId",
   "tags", "confidence", "routing", "status", "history", "tasks", "entities",
   "errorDetails", "audioFile", "audioHash"}

\* two objects hold the same properties, an undefined one counting as absent
SameObject(a, b) ==
  {Defined(a.v)[i] : i \in DOMAIN Defined(a.v)}
    = {Defined(b.v)[i] : i \in DOMAIN Defined(b.v)}

\* two values of a field are equal: both undefined, or of one type and equal,
\* arrays element by element and objects property by property
SameValue(a, b) ==
  IF IsUndefined(a) \/ IsUndefined(b) THEN IsUndefined(a) /\ IsUndefined(b)
  ELSE /\ a.t = b.t
       /\ CASE a.t = "array" ->
                 /\ Len(a.v) = Len(b.v)
                 /\ \A i \in DOMAIN a.v :
                      IF a.v[i].t = "object" /\ b.v[i].t = "object"
                        THEN SameObject(a.v[i], b.v[i])
                        ELSE a.v[i] = b.v[i]
            [] a.t = "object" -> SameObject(a, b)
            [] OTHER -> a.v = b.v

\* C27: after saveMetadata of a record with an id on a file without metadata
\* rows, loadMetadata returns a record equal to it field by field: every
\* field of TranscriptMetadata holds the value it was saved with, the date
\* and the timestamps of history and tasks being Dates again, and a field
\* that was not saved is undefined
C27_SaveThenLoadIsTheRecord ==
  [][(/\ lastOp'.op = "saveMetadata"
      /\ DOMAIN db.metadata = {}
      /\ Truthy(Get(lastOp'.arg, "id")))
     => \A key \in MetadataKeys :
          SameValue(Get(loadMetadata(db', "u2"), key), Get(lastOp'.arg, key))]_vars

\* a record with a status history and tasks has been saved on a file without
\* metadata rows, and the timestamps of its second task are read as Dates
C27_SavedHistoryAndTasks ==
  /\ lastOp.op = "saveMetadata"
  /\ DOMAIN db.metadata = {"id", "status", "history", "tasks"}
  /\ LET record == loadMetadata(db, "u2")
     IN /\ Get(Get(record, "tasks").v[2].v, "completed") = DateOf(2)
        /\ IsUndefined(Get(Get(record, "tasks").v[1].v, "changed"))
        /\ Get(Get(record, "history").v[1].v, "at") = DateOf(2)

Items == {"a", "b", "c"}

\* the most items one chunk of migrateDirectory holds (maxConcurrent)
MaxConcurrent == 2

\* what parseFrontmatter and the read of .transcript/item.json give for
\* item.md: a has a title and a body, b has no frontmatter and no body, c
\* has a title, a body and a raw transcript
Parsed(item) ==
  CASE item = "a" -> [metadata |-> << <<"title", Str("A")>> >>, body |-> <<"a">>,
                      raw |-> <<>>]
    [] item = "b" -> [metadata |-> <<>>, body |-> EmptyText, raw |-> <<>>]
    [] item = "c" -> [metadata |-> << <<"title", Str("B")>> >>, body |-> <<"+">>,
                      raw |-> << <<"text", Str("x")>>, <<"model", Str("m")>> >>]

MigrationResult(item, success, warnings, errors) ==
  [success |-> success, originalPath |-> item, newPath |-> item,
   warnings |-> warnings, errors |-> errors]

\* if (body) transcript.updateContent(body)
SetContent(created, body, t) ==
  IF body # EmptyText
    THEN PklTranscript_updateContent(created.db, created.handle, body, "none", t)
    ELSE created

\* if (rawTranscriptData) transcript.setRawTranscript(rawTranscriptData)
SetRaw(updated, raw, t) ==
  IF raw # <<>>
    THEN PklTranscript_setRawTranscript(updated.db, updated.handle, raw, t)
    ELSE updated

\* the target PklTranscript.create, updateContent, setRawTranscript and
\* close leave
CreateTarget(d, parsed, uuid, t) ==
  CHOOSE target \in
    {SetRaw(updated, parsed.raw, t).db :
       updated \in {SetContent(created, parsed.body, t) :
                      created \in {PklTranscript_create(d, parsed.metadata,
                                                        uuid, FALSE, t)}}} : TRUE

\* a migrateFile that does not look whether the target exists
migrateFileOverwriting(d, item, options, uuid, t) ==
  LET parsed == Parsed(item)
      warnings == IF parsed.metadata = <<>>
                    THEN <<"No frontmatter found - using empty metadata">>
                    ELSE <<>>
  IN IF item \notin d.readable
       THEN [pkl |-> d.pkl,
             result |-> MigrationResult(item, FALSE, <<>>, <<"Migration failed">>)]
     ELSE IF options.dryRun
       THEN [pkl |-> d.pkl, result |-> MigrationResult(item, TRUE, warnings, <<>>)]
     ELSE [pkl |-> [d.pkl EXCEPT ![item] = CreateTarget(@, parsed, uuid, t)],
           result |-> MigrationResult(item, TRUE, warnings, <<>>)]

\* migrateFile: pkl is the targets afterwards, result the MigrationResult
migrateFile(d, item, options, uuid, t) ==
  LET parsed == Parsed(item)
      warnings == IF parsed.metadata = <<>>
                    THEN <<"No frontmatter found - using empty metadata">>
                    ELSE <<>>
  IN IF item \notin d.readable
       THEN [pkl |-> d.pkl,
             result |-> MigrationResult(item, FALSE, <<>>, <<"Migration failed">>)]
     ELSE IF options.dryRun
       THEN [pkl |-> d.pkl, result |-> MigrationResult(item, TRUE, warnings, <<>>)]
     ELSE IF d.pkl[item].exists
       THEN [pkl |-> d.pkl,
             result |-> MigrationResult(item, FALSE, warnings,
                                        <<"Target .pkl file already exists">>)]
     ELSE [pkl |-> [d.pkl EXCEPT ![item] = CreateTarget(@, parsed, uuid, t)],
           result |-> MigrationResult(item, TRUE, warnings, <<>>)]

\* files cut into chunks of maxConcurrent
RECURSIVE Chunks(_, _)
Chunks(files, maxConcurrent) ==
  IF Len(files) <= maxConcurrent THEN (IF files = <<>> THEN <<>> ELSE <<files>>)
  ELSE <<SubSeq(files, 1, maxConcurrent)>>
         \o Chunks(SubSeq(files, maxConcurrent + 1, Len(files)), maxConcurrent)

NoBatch == [active |-> FALSE]

\* the callback of chunk.map for one file: the counters and the results
\* after it; the Error thrown for stopOnError is caught by the catch of the
\* callback itself
Counted(b, m, item) ==
  LET counted == [b EXCEPT !.successful = IF m.result.success THEN @ + 1 ELSE @,
                           !.failed = IF m.result.success THEN @ ELSE @ + 1,
                           !.results = Append(@, m.result)]
      caught == [counted EXCEPT
                   !.failed = @ + 1,
                   !.results = Append(@, MigrationResult(item, FALSE, <<>>,
                                                         <<"Unexpected error">>))]
  IN [pkl |-> m.pkl,
      batch |-> IF b.options.stopOnError /\ ~m.result.success
                  THEN caught ELSE counted]

MigrateCallback(d, item, uuid, t) ==
  CHOOSE after \in
    {Counted(d.batch, m, item) :
       m \in {migrateFile(d, item, d.batch.options, uuid, t)}} : TRUE

\* ------------------------------------------------------------------------
\* SpecMigrate: migrateFile and migrateDirectory on one directory
\* ------------------------------------------------------------------------
\* a target that exists already: a document with the title A
ExistingTarget == CreateTarget(EmptyDb, Parsed("a"), "u1", 0)

Directories ==
  {[readable |-> readable,
    pkl |-> [item \in Items |-> IF item \in existing THEN ExistingTarget
                                ELSE EmptyDb],
    batch |-> NoBatch] :
     readable \in {Items, Items \ {"b"}}, existing \in SUBSET Items}

InitMigrate ==
  /\ db = EmptyDb
  /\ handles = [h \in Handles |-> ClosedHandle]
  /\ held = <<>>
  /\ heldBefore = JsNull
  /\ changed = FALSE
  /\ rawFirst = NoRawFirst
  /\ lastOp = NoOp
  /\ now = 0
  /\ pc = NoCalls
  /\ dir \in Directories

MigrationCall(op, arg, outcome) ==
  /\ lastOp' = [op |-> op, h |-> "h1", arg |-> arg, outcome |-> outcome, stmt |-> 0]
  /\ UNCHANGED <<db, handles, held, heldBefore, changed, rawFirst, now, pc>>

MigrateFile(item, options) ==
  /\ ~dir.batch.active
  /\ \E m \in {migrateFile(dir, item, options, "u2", now)} :
       /\ dir' = [dir EXCEPT !.pkl = m.pkl]
       /\ MigrationCall("migrateFile", [item |-> item, options |-> options],
                        m.result)

\* migrateDirectory up to its first chunk; files is what glob returns
MigrateDirectory(files, options) ==
  /\ ~dir.batch.active
  /\ dir' = [dir EXCEPT !.batch =
               [active |-> TRUE, options |-> options, total |-> Len(files),
                chunks |-> Chunks(files, options.maxConcurrent),
                pending |-> {}, started |-> FALSE,
                successful |-> 0, failed |-> 0, skipped |-> 0, results |-> <<>>]]
  /\ MigrationCall("migrateDirectory", [files |-> files, options |-> options], "running")

\* the loop takes the next chunk when the promises of the last have settled
NextChunk ==
  /\ dir.batch.active
  /\ dir.batch.pending = {}
  /\ dir.batch.chunks # <<>>
  /\ dir' = [dir EXCEPT
               !.batch.pending = {Head(dir.batch.chunks)[i] :
                                    i \in DOMAIN Head(dir.batch.chunks)},
               !.batch.chunks = Tail(@),
               !.batch.started = TRUE]
  /\ MigrationCall("chunk", Head(dir.batch.chunks), "running")

\* the callback of one file of the chunk runs to its end
MigrateItem(item) ==
  /\ dir.batch.active
  /\ item \in dir.batch.pending
  /\ \E m \in {MigrateCallback(dir, item, "u2", now)} :
       /\ dir' = [dir EXCEPT !.pkl = m.pkl,
                             !.batch = [m.batch EXCEPT !.pending = @ \ {item}]]
       /\ MigrationCall("item", item, "running")

\* migrateDirectory returns
BatchReturns ==
  /\ dir.batch.active
  /\ dir.batch.pending = {}
  /\ dir.batch.chunks = <<>>
  /\ dir' = [dir EXCEPT !.batch = NoBatch]
  /\ MigrationCall("migrateDirectory",
                   [files |-> <<>>, options |-> dir.batch.options],
                   [total |-> dir.batch.total, successful |-> dir.batch.successful,
                    failed |-> dir.batch.failed, skipped |-> dir.batch.skipped,
                    results |-> dir.batch.results])

FileOrders ==
  {f \in [1..Cardinality(Items) -> Items] : \A i, j \in DOMAIN f : i # j => f[i] # f[j]}

MigrationOptions == [dryRun : BOOLEAN]

BatchMigrationOptions ==
  [dryRun : {FALSE}, stopOnError : BOOLEAN, maxConcurrent : 1..MaxConcurrent]

NextMigrate ==
  \/ \E item \in Items, options \in MigrationOptions : MigrateFile(item, options)
  \/ \E files \in FileOrders, options \in BatchMigrationOptions :
       MigrateDirectory(files, options)
  \/ NextChunk
  \/ \E item \in Items : MigrateItem(item)
  \/ BatchReturns

SpecMigrate == InitMigrate /\ [][NextMigrate]_vars

\* C29: in migrateDirectory the callback of a file appends that file's
\* result, a failure if the file is unreadable or its target exists, with
\* its error; without stopOnError every file has been processed when the
\* call returns; with stopOnError no further chunk of files is taken once
\* a result is a failure
C29_BatchReportsAndStops ==
  [][/\ lastOp'.op = "item" =>
          LET item == lastOp'.arg
              result == dir'.batch.results[Len(dir.batch.results) + 1]
          IN /\ result.originalPath = item
             /\ result.success = (item \in dir.readable /\ ~dir.pkl[item].exists)
             /\ ~result.success => result.errors # <<>>
     /\ (lastOp'.op = "migrateDirectory" /\ dir.batch.active
           /\ ~dir.batch.options.stopOnError)
          => /\ Len(dir.batch.results) = dir.batch.total
             /\ dir.batch.successful + dir.batch.failed = dir.batch.total
     /\ (lastOp'.op = "chunk" /\ dir.batch.options.stopOnError)
          => \A i \in DOMAIN dir.batch.results : dir.batch.results[i].success]_vars

\* C30: migrateFile of a readable file whose target exists fails with the
\* error 'Target .pkl file already exists' and leaves every target as it
\* was; in dry-run mode it reports success and leaves every target as it
\* was, so it creates none
C30_ExistingTargetAndDryRun ==
  [][(lastOp'.op = "migrateFile" /\ lastOp'.arg.item \in dir.readable) =>
       LET item == lastOp'.arg.item
           result == lastOp'.outcome
       IN /\ lastOp'.arg.options.dryRun
               => (result.success /\ dir'.pkl = dir.pkl)
          /\ (~lastOp'.arg.options.dryRun /\ dir.pkl[item].exists)
               => /\ ~result.success
                  /\ result.errors = <<"Target .pkl file already exists">>
                  /\ dir'.pkl = dir.pkl]_vars

\* an import has failed on its existing target while another item of the
\* directory has been imported
C30_ExistingTargetRefused ==
  /\ lastOp.op = "migrateFile"
  /\ ~lastOp.arg.options.dryRun
  /\ lastOp.outcome.errors = <<"Target .pkl file already exists">>
  /\ dir.pkl[lastOp.arg.item] = ExistingTarget
  /\ \E item \in Items : dir.pkl[item].exists /\ dir.pkl[item] # ExistingTarget


\* ------------------------------------------------------------------------
\* audit.ts: getAuditSince, which compares the text that datetime('now')
\* stored in changed_at with the text of since.toISOString()
\* ------------------------------------------------------------------------
\* days of the model's calendar, counted from 2025-01-01
MaxDay == 2

\* the instants the clock is read at: midnight, one second later and noon
Instants == {day * 86400 + s : day \in 0..(MaxDay - 1), s \in {0, 1, 43200}}

\* a JavaScript Date with its milliseconds
Instant(s, ms) == [t |-> "Instant", s |-> s, ms |-> ms]

Pad2(n) == <<ToString(n \div 10), ToString(n % 10)>>

Pad3(n) == <<ToString(n \div 100)>> \o Pad2(n % 100)

\* the texts below are sequences of characters
DateText(s) == <<"2", "0", "2", "5", "-", "0", "1", "-">> \o Pad2(1 + s \div 86400)

TimeText(s) ==
  Pad2((s % 86400) \div 3600) \o <<":">> \o Pad2((s % 3600) \div 60)
    \o <<":">> \o Pad2(s % 60)

\* SQLite datetime('now'): 'YYYY-MM-DD HH:MM:SS'
datetime(s) == DateText(s) \o <<" ">> \o TimeText(s)

\* Date.prototype.toISOString of an instant: 'YYYY-MM-DDTHH:MM:SS.sssZ'
InstantToISOString(since) ==
  DateText(since.s) \o <<"T">> \o TimeText(since.s) \o <<".">>
    \o Pad3(since.ms) \o <<"Z">>

\* the byte of a character of these texts
CharCode(c) ==
  CASE c = " " -> 32
    [] c = "-" -> 45
    [] c = "." -> 46
    [] c = ":" -> 58
    [] c = "T" -> 84
    [] c = "Z" -> 90
    [] OTHER   -> 48 + (CHOOSE n \in 0..9 : ToString(n) = c)

\* a >= b for two TEXT values under SQLite's BINARY collation: memcmp over
\* the common length, then the longer text is the greater
RECURSIVE TextGE(_, _)
TextGE(a, b) ==
  IF b = <<>> THEN TRUE
  ELSE IF a = <<>> THEN FALSE
  ELSE IF CharCode(Head(a)) # CharCode(Head(b))
    THEN CharCode(Head(a)) > CharCode(Head(b))
  ELSE TextGE(Tail(a), Tail(b))

\* INSERT INTO audit_log (field, old_value, new_value) VALUES (?, ?, ?)
logChange(d, field, oldValue, newValue, t) ==
  [d EXCEPT !.audit_log =
     Append(@, [id |-> Len(@) + 1,
                field |-> field,
                old_value |-> AuditText(oldValue),
                new_value |-> AuditText(newValue),
                changed_at |-> t])]

\* SELECT ... FROM audit_log WHERE changed_at >= ? ORDER BY changed_at DESC
getAuditSince(d, since) ==
  NewestFirst(d, {i \in DOMAIN d.audit_log :
                    TextGE(datetime(d.audit_log[i].changed_at),
                           InstantToISOString(since))})

LogChange(field, oldValue, newValue) ==
  /\ Len(db.audit_log) <= MaxAudit
  /\ SchemaCall("logChange", <<field, oldValue, newValue>>,
                logChange(db, field, oldValue, newValue, now), "ok")

GetAuditSince(since) ==
  \E result \in getAuditSince(db, since) :
    SchemaCall("getAuditSince", since, db, result)

\* time passes until a later reading of the clock
Elapse ==
  /\ \E s \in Instants : s > now /\ now' = s
  /\ lastOp' = [op |-> "elapse", h |-> "h1", arg |-> <<>>, outcome |-> "ok", stmt |-> 0]
  /\ UNCHANGED <<db, handles, held, heldBefore, changed, rawFirst, dir, pc>>

\* ------------------------------------------------------------------------
\* SpecSince: the audit log of one stored document, written by logChange at
\* the instants of the clock and queried by getAuditSince
\* ------------------------------------------------------------------------
InitSince ==
  /\ db = StoredFile({}, <<CURRENT_SCHEMA_VERSION>>, TRUE)
  /\ handles = [h \in Handles |-> ClosedHandle]
  /\ held = <<>>
  /\ heldBefore = JsNull
  /\ changed = FALSE
  /\ rawFirst = NoRawFirst
  /\ lastOp = NoOp
  /\ now = 0
  /\ pc = NoCalls
  /\ dir = NoDir

SinceDates == {Instant(s, ms) : s \in Instants, ms \in {0, 500}}

NextSince ==
  \/ \E field \in {"title", "project"}, v \in {Str("a"), Str("b")} :
       LogChange(field, JsUndefined, v)
  \/ \E since \in SinceDates : GetAuditSince(since)
  \/ Elapse

SpecSince == InitSince /\ [][NextSince]_vars

\* the entry of audit row r was logged at or after the instant since
AtOrAfter(r, since) == r.changed_at * 1000 >= since.s * 1000 + since.ms

\* C31: getAuditSince(t) returns exactly the audit entries whose changed-at
\* time is at or after t, entries logged later on the day of t included
C31_SinceReturnsEntriesAtOrAfter ==
  lastOp.op = "getAuditSince" =>
    {lastOp.outcome[k].id : k \in DOMAIN lastOp.outcome}
      = {db.audit_log[i].id :
           i \in {i \in DOMAIN db.audit_log :
                    AtOrAfter(db.audit_log[i], lastOp.arg)}}

\* ------------------------------------------------------------------------
\* the batch tools over the .pkl files of a directory: migrateUuids
\* (uuid-migration), migrateProjectIds and backfillDates (migrate.ts).
\* A directory is a function from the names of its .pkl files to the files.
\* ------------------------------------------------------------------------
BaseNames == {"a", "b"}

\* what randomUUID() may return
Uuids == {"u2", "u3"}

\* utils.ts: the first 8 characters of the uuid (the uuids here are shorter),
\* a dash, and the name without .pkl (the names here carry no extension)
generateFilenameWithUuid(uuid, originalPattern) == uuid \o "-" \o originalPattern

\* the row load reads the content from; its text is not looked at here
ContentRow(d) ==
  IF LatestContent(d) = {} THEN 0 ELSE CHOOSE i \in LatestContent(d) : TRUE

\* PklTranscript.open(filePath, { readOnly }) on the file d, the metadata
\* accessor, and transcript.updateMetadata(UpdatesOf(metadata)) on the handle:
\* o is what the open returns, metadata what the accessor returns, u what
\* the update returns if it is called
OpenAndUpdate(d, readOnly, made, UpdatesOf(_), t) ==
  CHOOSE calls \in
    UNION {UNION {{[o |-> o, metadata |-> metadata, u |-> u] :
                     u \in {PklTranscript_updateMetadata(o.db, o.handle,
                                                        UpdatesOf(metadata),
                                                        made, 0, t)}} :
                    metadata \in {PklTranscript_metadata(o.db, o.handle,
                                                         made).outcome}} :
             o \in {PklTranscript_open(d, readOnly, made, ContentRow(d))}} : TRUE

FileProcessResult(filePath, success, skipped, uuid, newName, error) ==
  [filePath |-> filePath, success |-> success, skipped |-> skipped,
   uuid |-> uuid, newName |-> newName, error |-> error]

\* renameSync(filePath, newPath), the file holding d
Rename(pkl, filePath, newPath, d) ==
  [n \in (DOMAIN pkl \ {filePath}) \cup {newPath} |->
     IF n = newPath THEN d ELSE pkl[n]]

\* processFile: pkl is the directory afterwards, result the FileProcessResult;
\* made and fresh are what randomUUID() returns in loadMetadata and here
processFile(pkl, filePath, dryRun, made, fresh, t) ==
  CHOOSE processed \in
    {LET o == c.o
         u == c.u
         newFilename == generateFilenameWithUuid(fresh, filePath)
     IN IF o.outcome # "ok"
          THEN [pkl |-> [pkl EXCEPT ![filePath] = o.db],
                result |-> FileProcessResult(filePath, FALSE, FALSE, "", "",
                                             "Failed to open")]
        ELSE IF Truthy(Get(c.metadata, "id"))
          THEN [pkl |-> [pkl EXCEPT ![filePath] = o.db],
                result |-> FileProcessResult(filePath, TRUE, TRUE,
                                             Get(c.metadata, "id").v, "", "")]
        ELSE IF dryRun
          THEN [pkl |-> [pkl EXCEPT ![filePath] = o.db],
                result |-> FileProcessResult(filePath, TRUE, FALSE, fresh,
                                             newFilename, "")]
        ELSE IF u.outcome # "ok"
          THEN [pkl |-> [pkl EXCEPT ![filePath] = u.db],
                result |-> FileProcessResult(filePath, FALSE, FALSE, "", "",
                                             u.outcome)]
        ELSE IF newFilename \in DOMAIN pkl
          THEN [pkl |-> [pkl EXCEPT ![filePath] = u.db],
                result |-> FileProcessResult(filePath, FALSE, FALSE, "", "",
                                             "Target filename already exists")]
        ELSE [pkl |-> Rename(pkl, filePath, newFilename, u.db),
              result |-> FileProcessResult(filePath, TRUE, FALSE, fresh,
                                           newFilename, "")] :
     c \in {OpenAndUpdate(pkl[filePath], dryRun, made,
                          LAMBDA metadata : << <<"id", Str(fresh)>> >>, t)}} : TRUE

\* the counters of migrateUuids after the result r of a file
UuidCounted(result, r) ==
  [result EXCEPT
     !.processed = @ + 1,
     !.results = Append(@, r),
     !.errors = IF ~r.success THEN Append(@, r.filePath) ELSE @,
     !.skipped = IF r.success /\ r.skipped THEN @ + 1 ELSE @,
     !.migrated = IF r.success /\ ~r.skipped THEN @ + 1 ELSE @,
     !.renamed = IF r.success /\ ~r.skipped /\ r.newName # ""
                   THEN Append(@, <<r.filePath, r.newName>>)
                   ELSE @]

\* the body of the loop of migrateUuids for one file
migrateUuidsFile(pkl, result, filePath, dryRun, made, fresh, t) ==
  CHOOSE out \in
    {[pkl |-> p.pkl, result |-> UuidCounted(result, p.result)] :
       p \in {processFile(pkl, filePath, dryRun, made, fresh, t)}} : TRUE

\* the loop of migrateUuids over allFiles, from file number i on
RECURSIVE UuidLoop(_, _, _, _, _, _, _, _)
UuidLoop(pkl, files, i, dryRun, made, fresh, t, result) ==
  IF i > Len(files) THEN [pkl |-> pkl, result |-> result]
  ELSE CHOOSE out \in
         {UuidLoop(p.pkl, files, i + 1, dryRun, made, fresh, t, p.result) :
            p \in {migrateUuidsFile(pkl, result, files[i], dryRun, made,
                                    fresh[i], t)}} : TRUE

migrateUuids(pkl, files, dryRun, made, fresh, t) ==
  UuidLoop(pkl, files, 1, dryRun, made, fresh, t,
           [processed |-> 0, migrated |-> 0, skipped |-> 0, errors |-> <<>>,
            renamed |-> <<>>, results |-> <<>>])

\* the body of the loop of migrateProjectIds for one file: pkl is the
\* directory afterwards, result the counters
migrateProjectIdsFile(pkl, result, filePath, projectMappings, dryRun, made, t) ==
  CHOOSE out \in
    {LET o == c.o
         u == c.u
         projectId == Get(c.metadata, "projectId")
         newProjectId == Get(projectMappings, projectId.v)
         failed == [result EXCEPT !.errors = @ + 1,
                                  !.errorFiles = Append(@, filePath)]
     IN IF o.outcome # "ok"
          THEN [pkl |-> [pkl EXCEPT ![filePath] = o.db], result |-> failed]
        ELSE IF Truthy(projectId) /\ Truthy(newProjectId)
          THEN IF dryRun
                 THEN [pkl |-> [pkl EXCEPT ![filePath] = o.db],
                       result |-> [result EXCEPT !.updated = @ + 1]]
               ELSE IF u.outcome # "ok"
                 THEN [pkl |-> [pkl EXCEPT ![filePath] = u.db], result |-> failed]
               ELSE [pkl |-> [pkl EXCEPT ![filePath] = u.db],
                     result |-> [result EXCEPT !.updated = @ + 1]]
        ELSE [pkl |-> [pkl EXCEPT ![filePath] = o.db],
              result |-> [result EXCEPT !.skipped = @ + 1]] :
     c \in {OpenAndUpdate(pkl[filePath], dryRun, made,
                          LAMBDA metadata :
                            << <<"projectId",
                                 Get(projectMappings,
                                     Get(metadata, "projectId").v)>> >>, t)}} : TRUE

RECURSIVE ProjectIdLoop(_, _, _, _, _, _, _, _)
ProjectIdLoop(pkl, files, i, projectMappings, dryRun, made, t, result) ==
  IF i > Len(files) THEN [pkl |-> pkl, result |-> result]
  ELSE CHOOSE out \in
         {ProjectIdLoop(p.pkl, files, i + 1, projectMappings, dryRun, made, t,
                        p.result) :
            p \in {migrateProjectIdsFile(pkl, result, files[i], projectMappings,
                                         dryRun, made, t)}} : TRUE

migrateProjectIds(pkl, files, projectMappings, dryRun, made, t) ==
  ProjectIdLoop(pkl, files, 1, projectMappings, dryRun, made, t,
                [totalFiles |-> Len(files), updated |-> 0, skipped |-> 0,
                 errors |-> 0, errorFiles |-> <<>>])

\* parseDateFromPath: the path of a carries the second day of the calendar,
\* the path of any other file carries no date
parseDateFromPath(filePath) == IF filePath = "a" THEN DateOf(2) ELSE JsUndefined

\* the read-only open of backfillDates with the metadata it reads (first),
\* and the writable open with its updateMetadata({ date }) (second)
BackfillCalls(d, date, made, t) ==
  CHOOSE calls \in
    UNION {{[first |-> first, second |-> second] :
              second \in {OpenAndUpdate(first.o.db, FALSE, made,
                                        LAMBDA metadata : << <<"date", date>> >>,
                                        t)}} :
             first \in {OpenAndUpdate(d, TRUE, made, LAMBDA metadata : <<>>, t)}} : TRUE

\* a loop body of backfillDates that writes in a dry run too
backfillDatesFileWriting(pkl, result, filePath, dryRun, made, t) ==
  CHOOSE out \in
    {LET o == c.first.o
         existingDate == Get(c.first.metadata, "date")
         w == c.second.o
         u == c.second.u
         failed == [result EXCEPT !.errors = @ + 1,
                                  !.errorFiles = Append(@, filePath)]
     IN IF o.outcome # "ok"
          THEN [pkl |-> [pkl EXCEPT ![filePath] = o.db], result |-> failed]
        ELSE IF Truthy(existingDate)
          THEN [pkl |-> [pkl EXCEPT ![filePath] = o.db],
                result |-> [result EXCEPT !.alreadyHasDate = @ + 1]]
        ELSE IF ~Truthy(parseDateFromPath(filePath))
          THEN [pkl |-> [pkl EXCEPT ![filePath] = o.db],
                result |-> [result EXCEPT !.unparseable = @ + 1]]
        ELSE IF w.outcome # "ok"
          THEN [pkl |-> [pkl EXCEPT ![filePath] = w.db], result |-> failed]
        ELSE IF u.outcome # "ok"
          THEN [pkl |-> [pkl EXCEPT ![filePath] = u.db], result |-> failed]
        ELSE [pkl |-> [pkl EXCEPT ![filePath] = u.db],
              result |-> [result EXCEPT !.backfilled = @ + 1]] :
     c \in {BackfillCalls(pkl[filePath], parseDateFromPath(filePath), made, t)}} : TRUE

\* the body of the loop of backfillDates for one file
backfillDatesFile(pkl, result, filePath, dryRun, made, t) ==
  CHOOSE out \in
    {LET o == c.first.o
         existingDate == Get(c.first.metadata, "date")
         w == c.second.o
         u == c.second.u
         failed == [result EXCEPT !.errors = @ + 1,
                                  !.errorFiles = Append(@, filePath)]
     IN IF o.outcome # "ok"
          THEN [pkl |-> [pkl EXCEPT ![filePath] = o.db], result |-> failed]
        ELSE IF Truthy(existingDate)
          THEN [pkl |-> [pkl EXCEPT ![filePath] = o.db],
                result |-> [result EXCEPT !.alreadyHasDate = @ + 1]]
        ELSE IF ~Truthy(parseDateFromPath(filePath))
          THEN [pkl |-> [pkl EXCEPT ![filePath] = o.db],
                result |-> [result EXCEPT !.unparseable = @ + 1]]
        ELSE IF dryRun
          THEN [pkl |-> [pkl EXCEPT ![filePath] = o.db],
                result |-> [result EXCEPT !.backfilled = @ + 1]]
        ELSE IF w.outcome # "ok"
          THEN [pkl |-> [pkl EXCEPT ![filePath] = w.db], result |-> failed]
        ELSE IF u.outcome # "ok"
          THEN [pkl |-> [pkl EXCEPT ![filePath] = u.db], result |-> failed]
        ELSE [pkl |-> [pkl EXCEPT ![filePath] = u.db],
              result |-> [result EXCEPT !.backfilled = @ + 1]] :
     c \in {BackfillCalls(pkl[filePath], parseDateFromPath(filePath), made, t)}} : TRUE

RECURSIVE BackfillLoop(_, _, _, _, _, _, _)
BackfillLoop(pkl, files, i, dryRun, made, t, result) ==
  IF i > Len(files) THEN [pkl |-> pkl, result |-> result]
  ELSE CHOOSE out \in
         {BackfillLoop(p.pkl, files, i + 1, dryRun, made, t, p.result) :
            p \in {backfillDatesFile(pkl, result, files[i], dryRun, made, t)}} : TRUE

backfillDates(pkl, files, dryRun, made, t) ==
  BackfillLoop(pkl, files, 1, dryRun, made, t,
               [totalFiles |-> Len(files), backfilled |-> 0, alreadyHasDate |-> 0,
                unparseable |-> 0, errors |-> 0, errorFiles |-> <<>>])

\* ------------------------------------------------------------------------
\* SpecBatch: the batch tools run, one after the other, over a directory of
\* documents of either schema version, with or without a stored id, a
\* projectId and a date
\* ------------------------------------------------------------------------
Document(sv, withId, withProject, withDate) ==
  LET d0 == StoredFile({}, <<sv>>, withId)
      d1 == IF withProject THEN Upsert(d0, "projectId", <<"p">>, 0) ELSE d0
  IN IF withDate THEN Upsert(d1, "date", <<toISOString(1)>>, 0) ELSE d1

Documents ==
  {Document(1, FALSE, FALSE, FALSE), Document(1, FALSE, TRUE, FALSE),
   Document(1, TRUE, FALSE, TRUE), Document(CURRENT_SCHEMA_VERSION, FALSE, TRUE, FALSE),
   Document(CURRENT_SCHEMA_VERSION, TRUE, FALSE, FALSE),
   Document(CURRENT_SCHEMA_VERSION, TRUE, TRUE, TRUE)}

BatchDirectories ==
  UNION {[names -> Documents] : names \in SUBSET BaseNames}

InitBatch ==
  /\ db = EmptyDb
  /\ handles = [h \in Handles |-> ClosedHandle]
  /\ held = <<>>
  /\ heldBefore = JsNull
  /\ changed = FALSE
  /\ rawFirst = NoRawFirst
  /\ lastOp = NoOp
  /\ now = 0
  /\ pc = NoCalls
  /\ dir \in {[pkl |-> pkl] : pkl \in BatchDirectories}

\* the orders glob and readdir may list the files of the directory in
Listings(pkl) ==
  {f \in [1..Cardinality(DOMAIN pkl) -> DOMAIN pkl] :
     \A i, j \in DOMAIN f : i # j => f[i] # f[j]}

ProjectMappings == {<<>>, << <<"p", Str("P1")>> >>}

MigrateUuids(dryRun) ==
  \E files \in Listings(dir.pkl), made \in Uuids :
    \E fresh \in [DOMAIN files -> Uuids] :
      \E r \in {migrateUuids(dir.pkl, files, dryRun, made, fresh, now)} :
        /\ dir' = [dir EXCEPT !.pkl = r.pkl]
        /\ MigrationCall("migrateUuids", [dryRun |-> dryRun, files |-> files],
                         r.result)

MigrateProjectIds(projectMappings, dryRun) ==
  \E files \in Listings(dir.pkl), made \in Uuids :
    \E r \in {migrateProjectIds(dir.pkl, files, projectMappings, dryRun, made, now)} :
      /\ dir' = [dir EXCEPT !.pkl = r.pkl]
      /\ MigrationCall("migrateProjectIds",
                       [dryRun |-> dryRun, files |-> files,
                        projectMappings |-> projectMappings], r.result)

BackfillDates(dryRun) ==
  \E files \in Listings(dir.pkl), made \in Uuids :
    \E r \in {backfillDates(dir.pkl, files, dryRun, made, now)} :
      /\ dir' = [dir EXCEPT !.pkl = r.pkl]
      /\ MigrationCall("backfillDates", [dryRun |-> dryRun, files |-> files],
                       r.result)

NextBatch ==
  \/ \E dryRun \in BOOLEAN : MigrateUuids(dryRun)
  \/ \E projectMappings \in ProjectMappings, dryRun \in BOOLEAN :
       MigrateProjectIds(projectMappings, dryRun)
  \/ \E dryRun \in BOOLEAN : BackfillDates(dryRun)

SpecBatch == InitBatch /\ [][NextBatch]_vars

\* the files of the directory that hold no id row
WithoutIdentity(pkl) == {n \in DOMAIN pkl : ~HasRow(pkl[n], "id")}

\* C32: migrateUuids, not in dry-run, gives every document without a stored
\* identity a new UUID persisted in its metadata and counts it as migrated;
\* only the documents that have a stored identity are skipped
C32_UuidMigrationGivesIdentities ==
  [][(lastOp'.op = "migrateUuids" /\ ~lastOp'.arg.dryRun) =>
       LET results == lastOp'.outcome.results
       IN /\ \A n \in DOMAIN dir'.pkl : HasRow(dir'.pkl[n], "id")
          /\ lastOp'.outcome.migrated = Cardinality(WithoutIdentity(dir.pkl))
          /\ \A k \in DOMAIN results :
               results[k].skipped <=> results[k].filePath \notin WithoutIdentity(dir.pkl)]_vars

\* C34: a dry run of migrateUuids, migrateProjectIds or backfillDates
\* changes no document: the names and the rows of the files stay as they were
C34_DryRunChangesNothing ==
  [][(lastOp'.op \in {"migrateUuids", "migrateProjectIds", "backfillDates"}
       /\ lastOp'.arg.dryRun) => dir'.pkl = dir.pkl]_vars

\* a dry run has reported a file it would migrate, update or backfill
C34_DryRunFoundWork ==
  /\ lastOp.op = "backfillDates"
  /\ lastOp.arg.dryRun
  /\ lastOp.outcome.backfilled > 0
  /\ \E n \in DOMAIN dir.pkl : getSchemaVersion(dir.pkl[n]) < CURRENT_SCHEMA_VERSION


\* ------------------------------------------------------------------------
\* storage.ts: listTranscripts over the .pkl files of a directory
\* ------------------------------------------------------------------------
\* the options of listTranscripts this model gives; search, endDate and
\* sortBy are never given, so sortBy is 'date' and sortOrder 'desc'
ListTranscriptsOptions(status, project, projectId, tags, startDate, limit, offset) ==
  [status |-> status, project |-> project, projectId |-> projectId,
   tags |-> tags, startDate |-> startDate, limit |-> limit, offset |-> offset]

\* value || fallback
OrElse(value, fallback) == IF Truthy(value) THEN value ELSE fallback

\* the item listTranscripts pushes for a file with this metadata
TranscriptListItem(filePath, metadata) ==
  [filePath |-> filePath,
   title |-> OrElse(Get(metadata, "title"), Str(filePath)),
   date |-> OrElse(Get(metadata, "date"), [t |-> "null", v |-> ""]),
   project |-> Get(metadata, "project"),
   tags |-> OrElse(Get(metadata, "tags"), Arr(<<>>)),
   status |-> OrElse(Get(metadata, "status"), Str("initial"))]

\* the filters of listTranscripts: TRUE when the file is skipped by continue
Filtered(metadata, options) ==
  \/ Truthy(options.status) /\ Get(metadata, "status") # options.status
  \/ Truthy(options.project) /\ Get(metadata, "project") # options.project
  \/ /\ Truthy(options.tags) /\ Len(options.tags.v) > 0
     /\ LET itemTags == OrElse(Get(metadata, "tags"), Arr(<<>>)).v
        IN ~\E i \in DOMAIN options.tags.v, j \in DOMAIN itemTags :
              options.tags.v[i] = itemTags[j]
  \/ /\ Truthy(options.startDate) /\ Truthy(Get(metadata, "date"))
     /\ Get(metadata, "date").v < ParseDate(options.startDate.v).v

\* the loop over pklFiles from file number i on: items is the list so far
RECURSIVE ListItems(_, _, _, _, _, _)
ListItems(pkl, files, i, options, made, items) ==
  IF i > Len(files) THEN items
  ELSE CHOOSE out \in
         {ListItems(pkl, files, i + 1, options, made,
                    IF o.outcome # "ok" \/ Filtered(o.handle._metadata.fields, options)
                      THEN items
                      ELSE Append(items, TranscriptListItem(files[i],
                                           o.handle._metadata.fields))) :
            o \in {PklTranscript_open(pkl[files[i]], TRUE, made,
                                      ContentRow(pkl[files[i]]))}} : TRUE

\* a.date?.getTime() || 0, in days
DateKey(item) == IF item.date.t = "Date" THEN item.date.v ELSE 0

\* items.sort by date, descending; Array.prototype.sort is stable
SortByDateDesc(items) ==
  LET order == CHOOSE o \in [DOMAIN items -> DOMAIN items] :
                 /\ \A j, k \in DOMAIN items : j # k => o[j] # o[k]
                 /\ \A j, k \in DOMAIN items :
                      j < k => \/ DateKey(items[o[j]]) > DateKey(items[o[k]])
                               \/ /\ DateKey(items[o[j]]) = DateKey(items[o[k]])
                                  /\ o[j] < o[k]
  IN [k \in DOMAIN items |-> items[order[k]]]

\* items.slice(offset, offset + limit)
Slice(items, offset, limit) ==
  SubSeq(items, offset + 1,
         IF offset + limit < Len(items) THEN offset + limit ELSE Len(items))

listTranscripts(pkl, files, options, made) ==
  CHOOSE result \in
    {[transcripts |-> Slice(sorted, options.offset, options.limit),
      total |-> Len(sorted),
      hasMore |-> options.offset + options.limit < Len(sorted)] :
       sorted \in {SortByDateDesc(ListItems(pkl, files, 1, options, made, <<>>))}} : TRUE

\* ------------------------------------------------------------------------
\* SpecList: documents are created in a directory and listed
\* ------------------------------------------------------------------------
ProjectsEntity(id) ==
  Obj(<< <<"projects", Arr(<< Obj(<< <<"id", Str(id)>>, <<"name", Str("B")>> >>) >>)>> >>)

\* the metadata the documents of the directory are created with
ListedMetadata ==
  {<< <<"title", Str("A")>>, <<"date", DateOf(1)>>, <<"project", Str("A")>>,
      <<"projectId", Str("u1")>> >>,
   << <<"title", Str("B")>>, <<"date", DateOf(2)>>, <<"project", Str("B")>>,
      <<"projectId", Str("u2")>> >>,
   << <<"title", Str("x")>>, <<"date", DateOf(1)>>, <<"project", Str("B")>>,
      <<"entities", ProjectsEntity("u2")>> >>,
   << <<"title", Str("a")>> >>}

InitList ==
  /\ db = EmptyDb
  /\ handles = [h \in Handles |-> ClosedHandle]
  /\ held = <<>>
  /\ heldBefore = JsNull
  /\ changed = FALSE
  /\ rawFirst = NoRawFirst
  /\ lastOp = NoOp
  /\ now = 0
  /\ pc = NoCalls
  /\ dir = [pkl |-> <<>>]

\* PklTranscript.create(path, metadata) and close, in the directory
CreateTranscript(filePath, metadata) ==
  /\ filePath \notin DOMAIN dir.pkl
  /\ \E created \in {PklTranscript_create(EmptyDb, metadata, "u3", FALSE, now)} :
       /\ dir' = [dir EXCEPT !.pkl = Rename(dir.pkl, filePath, filePath, created.db)]
       /\ MigrationCall("create", filePath, created.outcome)

ListTranscripts(options) ==
  \E files \in Listings(dir.pkl), made \in Uuids :
    /\ dir' = dir
    /\ MigrationCall("listTranscripts", options,
                     listTranscripts(dir.pkl, files, options, made))

ListOptions ==
  {ListTranscriptsOptions(JsUndefined, project, projectId, JsUndefined,
                          JsUndefined, limit, 0) :
     project \in {JsUndefined, Str("B")},
     projectId \in {JsUndefined, Str("u1"), Str("u2")},
     limit \in {1, 50}}
  \cup {ListTranscriptsOptions(Str("initial"), JsUndefined, JsUndefined,
                               Arr(<<Str("x")>>), Str(toISOString(2)), 50, 1)}

NextList ==
  \/ \E filePath \in BaseNames, metadata \in ListedMetadata :
       CreateTranscript(filePath, metadata)
  \/ \E options \in ListOptions : ListTranscripts(options)

SpecList == InitList /\ [][NextList]_vars

\* the document d belongs to the project: its projectId row holds the id, or
\* an entry of entities.projects carries it
OfProject(d, projectId) ==
  LET metadata == loadMetadata(d, "u3")
      projects == OrElse(Get(OrElse(Get(metadata, "entities"), Obj(<<>>)).v,
                             "projects"), Arr(<<>>)).v
  IN \/ Get(metadata, "projectId") = projectId
     \/ \E i \in DOMAIN projects : Get(projects[i].v, "id") = projectId

\* C33: listTranscripts called with a projectId returns only the transcripts
\* of that project (by metadata projectId or by an entry of
\* entities.projects), and total counts exactly those
C33_ListFiltersByProjectId ==
  (/\ lastOp.op = "listTranscripts"
   /\ Truthy(lastOp.arg.projectId)
   /\ ~Truthy(lastOp.arg.project)
   /\ ~Truthy(lastOp.arg.status))
    => LET matching == {n \in DOMAIN dir.pkl : OfProject(dir.pkl[n], lastOp.arg.projectId)}
           listed == lastOp.outcome.transcripts
       IN /\ \A k \in DOMAIN listed : listed[k].filePath \in matching
          /\ lastOp.outcome.total = Cardinality(matching)


\* C35: when migrateDirectory returns, results holds exactly one entry per
\* input file, and successful + failed + skipped equals total, whatever the
\* options are
C35_BatchCountsEveryFileOnce ==
  (lastOp.op = "migrateDirectory" /\ ~dir.batch.active) =>
    LET r == lastOp.outcome
    IN /\ \A item \in Items :
            Cardinality({i \in DOMAIN r.results : r.results[i].originalPath = item}) = 1
       /\ r.successful + r.failed + r.skipped = r.total


\* ------------------------------------------------------------------------
\* SpecCache: one read-write handle and no other connection; any statement
\* of an updateContent transaction may throw, its COMMIT included
\* ------------------------------------------------------------------------
\* the statements of the updateContent transaction, COMMIT being the last
TransactionFails == ContentFails \cup {"commit"}

\* the texts the calls of this specification are given
CacheTexts == {EmptyText, <<"a">>, <<"+">>}

NextCache ==
  \/ \E threw \in BOOLEAN :
       ~db.exists /\ Create("h1", PlainMetadata, "u2", threw)
  \/ Open("h1", FALSE, "u2")
  \/ Close("h1")
  \/ \E newContent \in CacheTexts, fail \in TransactionFails :
       UpdateContent("h1", newContent, fail)

SpecCache == Init /\ [][NextCache]_vars

\* the text of the document's content stream: the text of the row load
\* reads, the empty text when there is none
StoredTexts(d) ==
  IF LatestContent(d) = {} THEN {EmptyText}
  ELSE {d.content[i].text : i \in LatestContent(d)}

\* C38: on a single read-write handle with no other writer, after any
\* sequence of updateContent calls (succeeding, changing nothing or
\* failing), the content accessor returns exactly the text stored in the
\* document's content stream
C38_AccessorReturnsStoredText ==
  handles["h1"].open => StoredTexts(db) = {content(handles["h1"])}


\* ------------------------------------------------------------------------
\* SpecShared: two read-write handles on one document, their updateContent
\* calls interleaved, each call running alone from its first statement to
\* its last
\* ------------------------------------------------------------------------
\* texts that are not empty and hold no line that starts with '+' or '-'
SharedTexts == {<<"a">>, <<"a", "a">>, <<"a", NL>>}

NextShared ==
  \/ ~db.exists /\ Create("h1", PlainMetadata, "u2", FALSE)
  \/ \E h \in Handles : Open(h, FALSE, "u2")
  \/ \E h \in Handles : Close(h)
  \/ \E h \in Handles, newContent \in SharedTexts :
       UpdateContent(h, newContent, "none")

SpecShared == Init /\ [][NextShared]_vars

\* C36: with two read-write handles open on the same document and their
\* updateContent calls interleaved in any order, every stored diff
\* transforms the text that was stored immediately before it into the text
\* stored immediately after it, and getContentAtVersion returns, for every
\* diff, the text the document held right after it
C36_DiffsFollowStoredText ==
  [][(/\ lastOp'.op = "updateContent"
      /\ Len(db'.content_history) > Len(db.content_history)) =>
       LET hd == handles'[lastOp'.h]
       IN /\ reconstructContentAtVersion(db', hd._contentId,
                                         Len(db.content_history))
               = db.content[hd._contentId].text
          /\ \A i \in 1..Len(held') :
               PklTranscript_getContentAtVersion(db', hd, i) = held'[i]]_vars


\* ------------------------------------------------------------------------
\* SpecChain: a document created with an identity, two read-write handles
\* on it, and their updateMetadata calls in any order
\* ------------------------------------------------------------------------
\* updateMetadata is called while audit_log has fewer rows than this
MaxChain == 3

ChainMetadata ==
  << <<"id", Str("u1")>>, <<"title", Str("A")>>, <<"confidence", Num(1)>>,
     <<"routing", RoutingXY>> >>

\* the fields a call of this specification may carry: fields saved at
\* creation and a field that is absent then
ChainEntries ==
  {<<"title", v>> : v \in {Str("A"), Str("B"), Str("")}}
    \cup {<<"confidence", v>> : v \in {Num(0), Num(1)}}
    \cup {<<"routing", v>> : v \in {RoutingXY, RoutingYX}}
    \cup {<<"tags", v>> : v \in {Arr(<<>>), Arr(<<Str("x")>>)}}

ChainUpdates ==
  {<<e>> : e \in ChainEntries}
    \cup {<<e1, e2>> : e1 \in {<<"title", Str("B")>>, <<"title", JsUndefined>>},
                       e2 \in {<<"tags", Arr(<<Str("x")>>)>>,
                               <<"confidence", Num(0)>>}}

UpdateMetadataShared(h, updates, fail) ==
  /\ handles[h].open
  /\ Len(db.audit_log) < MaxChain
  /\ Apply(h, "updateMetadata", updates,
           PklTranscript_updateMetadata(db, handles[h], updates, "u2", fail, now))
  /\ UNCHANGED <<held, heldBefore, changed, rawFirst, now, dir, pc>>

NextChain ==
  \/ ~db.exists /\ Create("h1", ChainMetadata, "u2", FALSE)
  \/ \E h \in Handles : db.exists /\ Open(h, FALSE, "u2")
  \/ \E h \in Handles : Close(h)
  \/ \E h \in Handles, updates \in ChainUpdates, fail \in {0, 1} :
       UpdateMetadataShared(h, updates, fail)

SpecChain == Init /\ [][NextChain]_vars

\* the audit rows of a field, oldest first
EntriesOf(d, field) == SelectSeq(d.audit_log, LAMBDA row : row.field = field)

\* C39: after create with an identity and any sequence of updateMetadata
\* calls from any number of read-write handles, the audit entries of each
\* field form a chain: the old value of an entry is the new value of the
\* field's previous entry, or for the first entry the value saved at
\* creation (null when the field was absent), and the new value of the
\* newest entry is the value the field holds now
C39_AuditEntriesFormChain ==
  \A field \in {row.field : row \in {db.audit_log[i] : i \in DOMAIN db.audit_log}} :
    LET entries == EntriesOf(db, field)
    IN /\ entries[1].old_value = AuditText(Get(ChainMetadata, field))
       /\ \A i \in 2..Len(entries) :
            entries[i].old_value = entries[i - 1].new_value
       /\ entries[Len(entries)].new_value
            = AuditText(Get(loadMetadata(db, "u2"), field))

\* the second handle has just logged a change of a field that has an earlier
\* entry, the first handle being open
C39_SecondHandleExtendsChain ==
  /\ lastOp.op = "updateMetadata" /\ lastOp.outcome = "ok" /\ lastOp.h = "h2"
  /\ handles["h1"].open
  /\ \E i \in DOMAIN lastOp.arg :
       /\ Len(EntriesOf(db, lastOp.arg[i][1])) >= 2
       /\ db.audit_log[Len(db.audit_log)].field = lastOp.arg[i][1]


\* ------------------------------------------------------------------------
\* SpecRace: two read-write handles on one document, each making one
\* setRawTranscript call; the call's existence check and its insert are
\* two statements with no transaction around them, so that statements of
\* the other handle may run between them
\* ------------------------------------------------------------------------
Returned(outcome) == [at |-> "returned", data |-> <<>>, outcome |-> outcome]

\* the call up to its last check: it throws, or goes on to the insert
BeginSetRawTranscript(h, data) ==
  /\ handles[h].open
  /\ pc[h].at = "start"
  /\ pc' = [pc EXCEPT ![h] =
              IF handles[h].readOnly THEN Returned("accessViolation")
              ELSE IF hasRawTranscript(db) THEN Returned("writeOnce")
              ELSE [at |-> "insert", data |-> data, outcome |-> "none"]]
  /\ lastOp' = [op |-> "setRawTranscript", h |-> h, arg |-> data,
                outcome |-> pc'[h].outcome, stmt |-> 0]
  /\ UNCHANGED <<db, handles, held, heldBefore, changed, rawFirst, now, dir>>

\* artifactManager.setRawTranscript(data), and the return
InsertRawTranscript(h) ==
  /\ pc[h].at = "insert"
  /\ db' = setRawTranscript(db, pc[h].data, now)
  /\ pc' = [pc EXCEPT ![h] = Returned("ok")]
  /\ lastOp' = [op |-> "setRawTranscript", h |-> h, arg |-> pc[h].data,
                outcome |-> "ok", stmt |-> 0]
  /\ UNCHANGED <<handles, held, heldBefore, changed, rawFirst, now, dir>>

NextRace ==
  \/ ~db.exists /\ Create("h1", PlainMetadata, "u2", FALSE)
  \/ \E h \in Handles : db.exists /\ Open(h, FALSE, "u2")
  \/ \E h \in Handles : pc[h].at # "insert" /\ Close(h)
  \/ \E h \in Handles, data \in RawPayloads : BeginSetRawTranscript(h, data)
  \/ \E h \in Handles : InsertRawTranscript(h)

SpecRace == Init /\ [][NextRace]_vars

\* C37: with two read-write handles open on the same document, each calling
\* setRawTranscript once, in any interleaving of their existence checks and
\* inserts, at most one call succeeds and at most one raw transcript
\* artifact exists afterwards
C37_OneRawTranscriptUnderRace ==
  /\ Cardinality({h \in Handles : pc[h].outcome = "ok"}) <= 1
  /\ Cardinality(ArtifactsOfType(db, "raw_transcript")) <= 1

====
